---- MODULE Spec2Model ----
(***************************************************************************)
(* Threat-intelligence engine: the rule engine (rule registry and          *)
(* evaluateRules), the graph engine (persisted graph, in-memory caches,    *)
(* addNode / addEdge / buildGraph / calculateGraphScore and                *)
(* detectCommunities), the ingestion and analysis pipeline, the event      *)
(* queue and the normalizer of the ingestion service, feature extraction   *)
(* and the two estimators of the ML engine.                                *)
(*                                                                         *)
(* Numbers that the source keeps as fractions are kept as integers in a    *)
(* fixed unit: edge weights and confidences in tenths (0.6 is 6); the      *)
(* fractional features (entropies, seconds between events, geo risk,       *)
(* rates) in thousandths (4.5 is 4500); graph metrics in millionths.       *)
(***************************************************************************)
EXTENDS Integers, Sequences, FiniteSets, TLC

VARIABLES
    rules,      \* RuleEngine.rules: the ordered registry
    regCount,   \* history: how many rules addRule has registered so far
    ruleRet,    \* what the last RuleEngine call returned
    dbNodes,    \* table graph_nodes, in rowid order
    dbEdges,    \* table graph_edges, in rowid order
    nodes,      \* GraphEngine.nodes (a Map, in insertion order)
    graph,      \* GraphEngine.graph: node id -> adjacency list
    edges,      \* GraphEngine.edges
    calls,      \* GraphEngine calls in flight, each at a storage callback
    builds,     \* history: how many buildGraph runs have started
    graphRet,   \* what the last completed GraphEngine call returned
    indicators, \* table indicators, in rowid order
    dbEvents,   \* table events, in rowid order
    alerts,     \* table alerts, in rowid order
    runs,       \* pipeline runs in flight (/analyze, /ingest/batch, ingestEvents)
    received,   \* history: how many events the pipeline has received
    response,   \* what the last completed pipeline run answered
    scoreRet,   \* what the last feature extraction or scoring call returned
    eventQueue, \* IngestionService.eventQueue
    queued,     \* history: how many events queueEvent has queued; the n-th
                \* event queued is event n
    handed,     \* history: the events passed to ingestEvents by flushQueue,
                \* in the order they were passed
    flushing,   \* flushQueue calls whose ingestEvents has not resolved yet
    flushedBy   \* history: what made the last flush that passed a batch

ruleVars == <<rules, regCount, ruleRet>>
graphVars == <<dbNodes, dbEdges, nodes, graph, edges, calls, builds, graphRet>>
pipeVars == <<indicators, dbEvents, alerts, runs, received, response>>
scoreVars == <<scoreRet>>
queueVars == <<eventQueue, queued, handed, flushing, flushedBy>>
vars == <<ruleVars, graphVars, pipeVars, scoreVars, queueVars>>

notRuleVars == <<graphVars, pipeVars, scoreVars, queueVars>>
notGraphVars == <<ruleVars, pipeVars, scoreVars, queueVars>>
notPipeVars == <<ruleVars, graphVars, scoreVars, queueVars>>
notScoreVars == <<ruleVars, graphVars, pipeVars, queueVars>>
notQueueVars == <<ruleVars, graphVars, pipeVars, scoreVars>>

----------------------------------------------------------------------------
(* Bounds *)

\* addRule calls that register a rule, over a whole run
MaxAdds == 2

\* rows of graph_nodes and of graph_edges the storage holds before an INSERT
\* fails
MaxNodes == 3
MaxEdges == 2

\* buildGraph runs started over a whole run
MaxBuilds == 1

\* GraphEngine calls in flight at the same time
MaxCalls == 2

\* events the pipeline receives over a whole run, events of one batch, and
\* pipeline runs in flight at the same time
MaxReceived == 3
MaxBatch == 2
MaxRuns == 2

\* events queueEvent queues over a whole run, and the flushes in progress
\* that are counted
MaxQueued == 102
MaxFlushing == 2

----------------------------------------------------------------------------
(* Rule engine: inputs *)

\* A rule's condition is a function of (features, events).  The twelve
\* default conditions are named after their rule; the conditions handed to
\* addRule are: always true, always false, one that throws, and none at all
\* (the property is missing from the rule object).
NoCondition == "none"

DefaultRuleIds ==
    << "brute_force_ssh", "port_scan_detection", "c2_communication",
       "multi_vector_attack", "data_exfiltration", "geo_anomaly",
       "rapid_succession", "blacklist_match", "privilege_escalation",
       "dns_tunneling", "scanning_activity", "malware_detection" >>

DefaultRuleScores == << 30, 25, 40, 35, 45, 20, 22, 35, 38, 33, 20, 50 >>

\* events of one indicator, run-length encoded: an element stands for n rows
\* with the same event_type, port and frequency (the conditions only count
\* and sum rows, so the order of rows inside the list is not observed)
Ev(t, p, f, n) == [event_type |-> t, port |-> p, frequency |-> f, n |-> n]

RECURSIVE SumN(_)
SumN(s) == IF s = <<>> THEN 0 ELSE Head(s).n + SumN(Tail(s))

RECURSIVE SumFrequency(_)
SumFrequency(s) ==
    IF s = <<>> THEN 0 ELSE Head(s).n * Head(s).frequency + SumFrequency(Tail(s))

CountType(events, t) == SumN(SelectSeq(events, LAMBDA e : e.event_type = t))

Features(freq, tbe, types, ports, pent, geo, geos, payload, bl, dns) ==
    [ event_frequency |-> freq, time_between_events |-> tbe,
      unique_event_types |-> types, unique_ports |-> ports,
      port_scan_entropy |-> pent, geo_risk_score |-> geo,
      unique_geolocations |-> geos, avg_payload_size |-> payload,
      blacklist_score |-> bl, dns_entropy |-> dns ]

QuietFeatures == Features(0, 0, 0, 0, 0, 0, 0, 0, 0, 0)
LoudFeatures == Features(300, 1000, 4, 25, 4200, 80000, 12, 20000000, 90, 4800)

\* What evaluateRules reads for an indicator: extractFeatures gives the
\* features, or null when it failed (extracted = FALSE); getIndicatorEvents
\* gives the events, or rejects (stored = FALSE).
Input(extracted, stored, f, events) ==
    [extracted |-> extracted, stored |-> stored, features |-> f, events |-> events]

RuleInputs ==
    { Input(FALSE, TRUE, QuietFeatures, <<>>),
      Input(TRUE, FALSE, QuietFeatures, <<>>),
      Input(TRUE, TRUE, QuietFeatures, <<>>),
      Input(TRUE, TRUE, Features(250, 60000, 1, 1, 0, 0, 0, 0, 0, 0),
            << Ev("failed_login", 22, 1, 250) >>),
      Input(TRUE, TRUE, Features(200, 60000, 1, 1, 0, 0, 0, 0, 0, 0),
            << Ev("failed_login", 22, 1, 200) >>),
      Input(TRUE, TRUE, Features(1, 0, 1, 0, 0, 0, 0, 0, 0, 0),
            << Ev("malware_detected", 0, 1, 1) >>),
      Input(TRUE, TRUE, LoudFeatures,
            << Ev("dns_query", 53, 1, 150), Ev("port_scan", 80, 1, 11),
               Ev("c2_communication", 443, 1, 1),
               Ev("failed_login", 22, 100, 3) >>) }

\* the rule objects handed to addRule
RuleArgs ==
    [ id : {"", "custom_a", "malware_detection"},
      name : {"", "Custom"},
      score : {-10, 60},
      condition : {NoCondition, "always", "never", "throws"} ]

\* the identifiers handed to removeRule and getRule
RuleIdArgs == {"custom_a", "malware_detection", "geo_anomaly"}

----------------------------------------------------------------------------
(* Rule engine: RuleEngine.rules and the operations on it *)

\* reg is history, not a field of the rule object: the position of the rule
\* in registration order (defaults 1..12, then each addRule in call order)
DefaultRule(i) ==
    [ id |-> DefaultRuleIds[i], name |-> DefaultRuleIds[i],
      score |-> DefaultRuleScores[i], condition |-> DefaultRuleIds[i],
      reg |-> i ]

initializeRules == [i \in 1..Len(DefaultRuleIds) |-> DefaultRule(i)]

\* rule.condition(features, events): "true", "false", or "throw"
Holds(b) == IF b THEN "true" ELSE "false"

brute_force_ssh(f, events) ==
    SumFrequency(SelectSeq(events,
        LAMBDA e : e.event_type = "failed_login" /\ e.port = 22)) > 200

c2_communication(f, events) ==
    \/ CountType(events, "c2_communication") > 0
    \/ (f.dns_entropy > 4000 /\ f.event_frequency > 50)

data_exfiltration(f, events) ==
    \/ CountType(events, "data_exfiltration") > 0
    \/ f.avg_payload_size > 10000000

privilege_escalation(f, events) ==
    CountType(events, "privilege_escalation")
        + CountType(events, "script_execution") > 0

Condition(rule, f, events) ==
    CASE rule.condition = "brute_force_ssh" -> Holds(brute_force_ssh(f, events))
      [] rule.condition = "port_scan_detection" ->
            Holds(f.unique_ports >= 20 /\ f.port_scan_entropy > 3000)
      [] rule.condition = "c2_communication" -> Holds(c2_communication(f, events))
      [] rule.condition = "multi_vector_attack" -> Holds(f.unique_event_types >= 3)
      [] rule.condition = "data_exfiltration" -> Holds(data_exfiltration(f, events))
      [] rule.condition = "geo_anomaly" ->
            Holds(f.geo_risk_score > 70000 \/ f.unique_geolocations > 10)
      [] rule.condition = "rapid_succession" ->
            Holds(f.time_between_events < 2000 /\ f.event_frequency > 100)
      [] rule.condition = "blacklist_match" -> Holds(f.blacklist_score > 50)
      [] rule.condition = "privilege_escalation" ->
            Holds(privilege_escalation(f, events))
      [] rule.condition = "dns_tunneling" ->
            Holds(CountType(events, "dns_query") > 100 /\ f.dns_entropy > 4500)
      [] rule.condition = "scanning_activity" ->
            Holds(CountType(events, "port_scan") > 10)
      [] rule.condition = "malware_detection" ->
            Holds(CountType(events, "malware_detected") > 0)
      [] rule.condition = "always" -> "true"
      [] rule.condition = "never" -> "false"
      [] rule.condition = "throws" -> "throw"

MatchedEntry(rule) ==
    [id |-> rule.id, name |-> rule.name, score |-> rule.score, reg |-> rule.reg]

\* the body of the for loop of evaluateRules: acc is (totalScore,
\* matchedRules); escaped says an exception left the loop
RuleThrowAborts(rule, outcome, acc) ==
    IF outcome = "true"
    THEN [acc EXCEPT !.total = @ + rule.score,
                     !.matched = Append(@, MatchedEntry(rule))]
    ELSE IF outcome = "throw" THEN [acc EXCEPT !.escaped = TRUE] ELSE acc

RuleStep(rule, outcome, acc) ==
    IF outcome = "true"
    THEN [acc EXCEPT !.total = @ + rule.score,
                     !.matched = Append(@, MatchedEntry(rule))]
    ELSE acc    \* "false", or "throw" caught and logged inside the loop

RECURSIVE RuleLoop(_, _, _, _, _)
RuleLoop(rs, i, f, events, acc) ==
    IF i > Len(rs) \/ acc.escaped THEN acc
    ELSE RuleLoop(rs, i + 1, f, events,
                  RuleStep(rs[i], Condition(rs[i], f, events), acc))

\* Math.min(totalScore, 100)
Normalize(total) == IF total < 100 THEN total ELSE 100

EmptyResult == [score |-> 0, matchedRules |-> <<>>]

EvaluateRules(rs, input) ==
    IF ~input.stored THEN EmptyResult                    \* the outer catch
    ELSE IF ~input.extracted THEN EmptyResult            \* !features
    ELSE LET acc == RuleLoop(rs, 1, input.features, input.events,
                             [total |-> 0, matched |-> <<>>, escaped |-> FALSE])
         IN  IF acc.escaped THEN EmptyResult             \* the outer catch
             ELSE [score |-> Normalize(acc.total), matchedRules |-> acc.matched]

NoRule == [id |-> "undefined"]

RuleIds(rs) == {rs[i].id : i \in 1..Len(rs)}

\* this.rules.findIndex(r => r.id === ruleId), 0 for -1
FindIndex(rs, ruleId) ==
    IF ruleId \in RuleIds(rs)
    THEN CHOOSE i \in 1..Len(rs) :
            rs[i].id = ruleId /\ \A j \in 1..(i - 1) : rs[j].id # ruleId
    ELSE 0

getRule(rs, ruleId) ==
    IF FindIndex(rs, ruleId) = 0 THEN NoRule ELSE rs[FindIndex(rs, ruleId)]

InvalidRule(r) == r.id = "" \/ r.name = "" \/ r.condition = NoCondition

\* this.rules.push(rule)
UnshiftRule(rs, rule) == <<rule>> \o rs

PushRule(rs, rule) == Append(rs, rule)

\* this.rules.splice(index, 1)
Splice(rs, index) == SubSeq(rs, 1, index - 1) \o SubSeq(rs, index + 1, Len(rs))

Ret(op, arg, ret) == [op |-> op, arg |-> arg, ret |-> ret]

AddRule ==
    \E r \in RuleArgs :
        /\ regCount < MaxAdds
        /\ IF InvalidRule(r)
           THEN /\ ruleRet' = Ret("addRule", r, "threw")
                /\ UNCHANGED <<rules, regCount>>
           ELSE /\ rules' = PushRule(rules,
                        [r EXCEPT !.id = r.id] @@
                        [reg |-> Len(DefaultRuleIds) + regCount + 1])
                /\ regCount' = regCount + 1
                /\ ruleRet' = Ret("addRule", r, "ok")
        /\ UNCHANGED notRuleVars

RemoveRule ==
    \E ruleId \in RuleIdArgs :
        LET index == FindIndex(rules, ruleId) IN
        /\ IF index > 0
           THEN /\ rules' = Splice(rules, index)
                /\ ruleRet' = Ret("removeRule", ruleId, TRUE)
           ELSE /\ rules' = rules
                /\ ruleRet' = Ret("removeRule", ruleId, FALSE)
        /\ UNCHANGED <<regCount, notRuleVars>>

Evaluate ==
    \E input \in RuleInputs :
        /\ ruleRet' = Ret("evaluateRules", input, EvaluateRules(rules, input))
        /\ UNCHANGED <<rules, regCount, notRuleVars>>

----------------------------------------------------------------------------
(* Initial state: a new process on an empty database *)

\* a GraphEngine call in flight.  pc is the storage statement whose callback
\* the call waits for; a statement and its callback are one step.
\*   addNode:            select -> insert
\*   calculateGraphScore (buildGraph, then the metrics):
\*                       loadNodes -> loadEdges -> relSelect
\*                       -> (select -> insert)* -> (edge)*
\* rows / i are the rows of createRelationshipsFromEvents and the one being
\* added; cands / k the edges the two sampling loops may add, in loop order,
\* and the one whose INSERT is pending.  overlap is history: another call
\* has run while this one was in flight.
Call(kind, pc, type, value, rows, i, cands, k) ==
    [ kind |-> kind, pc |-> pc, type |-> type, value |-> value,
      rows |-> rows, i |-> i, cands |-> cands, k |-> k, overlap |-> FALSE ]

Idle == Call("idle", "", "", "", <<>>, 0, <<>>, 0)

\* the arguments of an addEdge call
Cand(src, dst, rel, w) ==
    [source_node |-> src, target_node |-> dst, relation_type |-> rel, weight |-> w]
NoRet == Ret("none", "none", "none")

\* a GraphEngine call's promise: "resolved" with ret, "rejected", or
\* "pending" for a promise that never settles
GraphRet(op, arg, status, ret) == [op |-> op, arg |-> arg, status |-> status, ret |-> ret]
NoGraphRet == GraphRet("none", "none", "none", 0)
\* uuidv4() identifiers, numbered in the order the rows are inserted
NodeIds == 1..MaxNodes

InitRules ==
    /\ rules = initializeRules
    /\ regCount = 0
    /\ ruleRet = NoRet

InitGraph ==
    /\ dbNodes = <<>>
    /\ dbEdges = <<>>
    /\ nodes = <<>>
    /\ graph = [id \in NodeIds |-> <<>>]
    /\ edges = <<>>
    /\ calls = [s \in 1..MaxCalls |-> Idle]
    /\ builds = 0
    /\ graphRet = NoGraphRet

\* a pipeline run in flight: the events it was handed (items, each with the
\* number seq it was received as), the one it is at (i), the step whose
\* completion it waits for (pc), the row storeIndicator's SELECT found (row,
\* 0 for none), the indicatorId (id) and the results so far
Run(kind, pc, items, i, row, id, results) ==
    [ kind |-> kind, pc |-> pc, items |-> items, i |-> i, row |-> row, id |-> id,
      results |-> results ]

IdleRun == Run("idle", "", <<>>, 0, 0, 0, <<>>)

\* what a run answers: the HTTP status and body of a handler, or the list
\* ingestEvents returns.  first is history: the number the first event of
\* the run was received as.
Response(op, status, first, total, results) ==
    [ op |-> op, status |-> status, first |-> first, total |-> total,
      successful |-> Len(SelectSeq(results, LAMBDA r : r.success)),
      failed |-> Len(SelectSeq(results, LAMBDA r : ~r.success)),
      results |-> results ]

NoResponse == Response("none", 0, 0, 0, <<>>)

InitPipeline ==
    /\ indicators = <<>>
    /\ dbEvents = <<>>
    /\ alerts = <<>>
    /\ runs = [s \in 1..MaxRuns |-> IdleRun]
    /\ received = 0
    /\ response = NoResponse

\* a call of the feature engine, the ML engine or evaluateRules on the
\* stored indicator and events of input: the promise resolves with ret
ScoreRet(op, input, ret) == [op |-> op, input |-> input, status |-> "resolved", ret |-> ret]

InitScoring == scoreRet = [op |-> "none"]

\* the constructor of IngestionService
InitQueue ==
    /\ eventQueue = <<>>
    /\ queued = 0
    /\ handed = <<>>
    /\ flushing = 0
    /\ flushedBy = "none"

Init == InitRules /\ InitGraph /\ InitPipeline /\ InitScoring /\ InitQueue

NextRules == AddRule \/ RemoveRule \/ Evaluate

SpecRules == Init /\ [][NextRules]_vars

----------------------------------------------------------------------------
(* Rule engine: properties *)

RECURSIVE SumScores(_)
SumScores(matched) ==
    IF matched = <<>> THEN 0 ELSE Head(matched).score + SumScores(Tail(matched))

Clamp(x, lo, hi) == IF x < lo THEN lo ELSE IF x > hi THEN hi ELSE x

Evaluated == ruleRet.op = "evaluateRules"
EvaluatedFully == Evaluated /\ ruleRet.arg.extracted /\ ruleRet.arg.stored

\* C1: whatever rules are registered and whatever the (features, events)
\* input, the score evaluateRules returns lies in [0,100] and is the sum of
\* the points of the triggered rules clamped to [0,100].
C1_ScoreInRange ==
    Evaluated =>
        /\ ruleRet.ret.score \in 0..100
        /\ ruleRet.ret.score = Clamp(SumScores(ruleRet.ret.matchedRules), 0, 100)

Throws(r, input) == Condition(r, input.features, input.events) = "throw"

WithoutThrowing(rs, input) == SelectSeq(rs, LAMBDA r : ~Throws(r, input))

\* C2: a rule whose condition throws is not matched, and the result is the
\* one the registry without the throwing rules gives: the rules before and
\* after a throwing rule are evaluated and counted all the same.
C2_ThrowingRuleSkipped ==
    EvaluatedFully =>
        /\ \A i \in 1..Len(rules) : \A k \in 1..Len(ruleRet.ret.matchedRules) :
              Throws(rules[i], ruleRet.arg) =>
                  ruleRet.ret.matchedRules[k].reg # rules[i].reg
        /\ ruleRet.ret = EvaluateRules(WithoutThrowing(rules, ruleRet.arg), ruleRet.arg)

MatchedRegs == {ruleRet.ret.matchedRules[k].reg : k \in 1..Len(ruleRet.ret.matchedRules)}

\* an evaluation in which a rule threw between two rules that matched
C2_Witness ==
    /\ EvaluatedFully
    /\ \E i, j, k \in 1..Len(rules) :
          /\ i < j /\ j < k
          /\ Throws(rules[j], ruleRet.arg)
          /\ rules[i].reg \in MatchedRegs
          /\ rules[k].reg \in MatchedRegs

\* C3: addRule rejects an id that is already registered, so the ids of the
\* registered rules are pairwise distinct.
C3_RuleIdsDistinct ==
    \A i, j \in 1..Len(rules) : i # j => rules[i].id # rules[j].id

\* C4: once removeRule(id) has returned true, getRule(id) finds nothing and
\* an evaluation lists only registered rules; removeRule(id) of an id that
\* is not registered returns false and leaves the registry as it was.
C4_RemovedRuleIsGone ==
    [][ /\ (ruleRet'.op = "removeRule" /\ ruleRet'.ret = TRUE) =>
              getRule(rules', ruleRet'.arg) = NoRule
        /\ (ruleRet'.op = "removeRule" /\ ruleRet'.arg \notin RuleIds(rules)) =>
              (ruleRet'.ret = FALSE /\ rules' = rules)
        /\ ruleRet'.op = "evaluateRules" =>
              \A k \in 1..Len(ruleRet'.ret.matchedRules) :
                  ruleRet'.ret.matchedRules[k].id \in RuleIds(rules')
      ]_vars

InRegistrationOrder(s) == \A i, j \in 1..Len(s) : i < j => s[i].reg < s[j].reg

\* C5: evaluating the same registry on the same input again gives the same
\* score and the same matchedRules, and matchedRules lists the triggered
\* rules in registration order: the registry keeps the defaults in declared
\* order followed by the added rules in the order of their addRule calls.
C5_DeterministicInOrder ==
    [][ ruleRet'.op = "evaluateRules" =>
          /\ InRegistrationOrder(rules')
          /\ InRegistrationOrder(ruleRet'.ret.matchedRules)
          /\ ruleRet'.ret.matchedRules =
               [k \in 1..Len(SelectSeq(rules', LAMBDA r :
                       ruleRet'.arg.extracted /\ ruleRet'.arg.stored
                       /\ Condition(r, ruleRet'.arg.features, ruleRet'.arg.events) = "true"))
                 |-> MatchedEntry(SelectSeq(rules', LAMBDA r :
                       ruleRet'.arg.extracted /\ ruleRet'.arg.stored
                       /\ Condition(r, ruleRet'.arg.features, ruleRet'.arg.events) = "true")[k])]
          /\ (ruleRet.op = "evaluateRules" /\ ruleRet.arg = ruleRet'.arg /\ rules = rules')
                => ruleRet'.ret = ruleRet.ret
      ]_vars

\* an evaluation that matched a default rule and, after it, two added rules,
\* on a registry a default rule was removed from
C5_Witness ==
    /\ EvaluatedFully
    /\ Len(rules) = Len(DefaultRuleIds) + 1
    /\ \E a, b, c \in MatchedRegs :
          a <= Len(DefaultRuleIds) /\ Len(DefaultRuleIds) < b /\ b < c

----------------------------------------------------------------------------
(* Graph engine: inputs *)

\* the (type, value) pairs handed to addNode
NodeArgs == { [type |-> "IP", value |-> "alpha"], [type |-> "domain", value |-> "alpha"] }

\* the rows createRelationshipsFromEvents reads from indicators JOIN events
JoinRowArgs ==
    { <<>>,
      << [type |-> "IP", value |-> "beta"], [type |-> "IP", value |-> "alpha"] >> }

\* the (source, target, weight) handed to addEdge by a caller outside the
\* engine; weights in tenths
EdgeArgs ==
    { Cand(1, 2, "related_to", 10), Cand(2, 3, "related_to", 3) }

\* the indicator values handed to calculateGraphScore
ValueArgs == {"alpha"}

----------------------------------------------------------------------------
(* Graph engine: storage rows, the caches, and the functions on them *)

NodeRow(id, type, value) == [id |-> id, entity_type |-> type, entity_value |-> value]

EdgeRow(id, src, dst, rel, w) ==
    [ id |-> id, source_node |-> src, target_node |-> dst,
      relation_type |-> rel, weight |-> w ]

Neighbor(e) == [target |-> e.target_node, type |-> e.relation_type, weight |-> e.weight]

\* this.nodes.set(row.id, row)
MapSet(m, row) ==
    IF \E i \in 1..Len(m) : m[i].id = row.id
    THEN [i \in 1..Len(m) |-> IF m[i].id = row.id THEN row ELSE m[i]]
    ELSE Append(m, row)

RECURSIVE SetAll(_, _)
SetAll(m, rows) ==
    IF rows = <<>> THEN m ELSE SetAll(MapSet(m, Head(rows)), Tail(rows))

\* this.graph.get(source).push({target, type, weight}), after the list is
\* created when the key is missing.  A missing key and an empty list read
\* the same everywhere (this.graph.get(id) || []), so graph is a function on
\* all identifiers with the empty list for a missing key.
Push(g, e) == [g EXCEPT ![e.source_node] = Append(@, Neighbor(e))]

RECURSIVE PushAll(_, _)
PushAll(g, rows) ==
    IF rows = <<>> THEN g ELSE PushAll(Push(g, Head(rows)), Tail(rows))

\* SELECT id FROM graph_nodes WHERE entity_value = ? AND entity_type = ?
\* (db.get: the first row, 0 for none)
FindNodeByValue(db, value, type) ==
    IF \E i \in 1..Len(db) : db[i].entity_value = value
    THEN CHOOSE i \in 1..Len(db) :
            /\ db[i].entity_value = value
            /\ \A j \in 1..(i - 1) : db[j].entity_value # value
    ELSE 0

FindNode(db, value, type) ==
    IF \E i \in 1..Len(db) : db[i].entity_value = value /\ db[i].entity_type = type
    THEN CHOOSE i \in 1..Len(db) :
            /\ db[i].entity_value = value /\ db[i].entity_type = type
            /\ \A j \in 1..(i - 1) :
                  ~(db[j].entity_value = value /\ db[j].entity_type = type)
    ELSE 0

OfType(m, t) == SelectSeq(m, LAMBDA n : n.entity_type = t)

\* array.slice(0, n)
Slice(a, n) == SubSeq(a, 1, IF Len(a) < n THEN Len(a) ELSE n)

\* the addEdge calls the two sampling loops of createRelationshipsFromEvents
\* make when every Math.random() test passes, in loop order
RECURSIVE IpPairs(_, _, _)
IpPairs(ip, i, j) ==
    IF i > Len(ip) THEN <<>>
    ELSE IF j > Len(ip) THEN IpPairs(ip, i + 1, i + 2)
    ELSE << Cand(ip[i].id, ip[j].id, "communicates_with", 6) >> \o IpPairs(ip, i, j + 1)

RECURSIVE IpDomains(_, _, _, _)
IpDomains(ip, dom, i, j) ==
    IF i > Len(ip) THEN <<>>
    ELSE IF j > Len(dom) THEN IpDomains(ip, dom, i + 1, 1)
    ELSE << Cand(ip[i].id, dom[j].id, "resolves_to", 7) >> \o IpDomains(ip, dom, i, j + 1)

Candidates(m) ==
    IpPairs(OfType(m, "IP"), 1, 2)
        \o IpDomains(Slice(OfType(m, "IP"), 10), Slice(OfType(m, "domain"), 5), 1, 1)

\* Fractions of the metrics are integers in millionths, divisions rounding
\* down: 1.0 is Unit, 0.15 is 150000.
Unit == 1000 * 1000

\* calculatePageRank(iterations = 20, dampingFactor = 0.85); the damping
\* factor in hundredths
Iterations == 20
DampingFactor == 85

RECURSIVE SumSeq(_)
SumSeq(s) == IF s = <<>> THEN 0 ELSE Head(s) + SumSeq(Tail(s))

\* neighbors.find(n => n.target === nodeId)
PointsTo(g, otherId, nodeId) ==
    \E k \in 1..Len(g[otherId]) : g[otherId][k].target = nodeId

\* the inner nodeIds.forEach of calculatePageRank: the sum, over the nodes
\* m[j..] that point to nodeId, of their rank divided by their out-degree.
\* pagerank is a tuple in the order of nodeIds (the keys of this.nodes).
RECURSIVE InboundRank(_, _, _, _, _)
InboundRank(m, g, pagerank, nodeId, j) ==
    IF j > Len(m) THEN 0
    ELSE (IF PointsTo(g, m[j].id, nodeId)
          THEN pagerank[j] \div Len(g[m[j].id])
          ELSE 0)
         + InboundRank(m, g, pagerank, nodeId, j + 1)

\* newPagerank[nodeId] = (1 - dampingFactor) / numNodes + dampingFactor * sum
NewRank(m, g, pagerank, nodeId) ==
    ((100 - DampingFactor) * Unit) \div (100 * Len(m))
        + (DampingFactor * InboundRank(m, g, pagerank, nodeId, 1)) \div 100

\* one iteration: newPagerank for the nodes m[i..]
RECURSIVE NewPagerank(_, _, _, _)
NewPagerank(m, g, pagerank, i) ==
    IF i > Len(m) THEN <<>>
    ELSE << NewRank(m, g, pagerank, m[i].id) >> \o NewPagerank(m, g, pagerank, i + 1)

\* the iterations left; Object.assign(pagerank, newPagerank) ends each one,
\* after newPagerank has a value for every node
RECURSIVE Iterate(_, _, _, _)
Iterate(m, g, pagerank, iter) ==
    IF iter = 0 THEN pagerank
    ELSE LET newPagerank == NewPagerank(m, g, pagerank, 1)
         IN  IF Len(newPagerank) = Len(m)
             THEN Iterate(m, g, newPagerank, iter - 1)
             ELSE pagerank

\* pagerank[id] = 1.0 / numNodes for every node
InitialPagerank(m) == [i \in 1..Len(m) |-> Unit \div Len(m)]

calculatePageRank(m, g) ==
    IF Len(m) = 0 THEN <<>>
    ELSE Iterate(m, g, InitialPagerank(m), Iterations)

\* centrality[nodeId] = maxDegree > 0 ? neighbors.length / maxDegree : 0
calculateCentrality(m, g, nodeId) ==
    IF Len(m) - 1 > 0 THEN (Len(g[nodeId]) * Unit) \div (Len(m) - 1) ELSE 0

\* the two neighborIds.forEach loops of calculateClusterDensity: the pairs
\* of entries of the neighbor list with different targets, the first having
\* an edge to the second
Connections(g, nodeId) ==
    Cardinality({ p \in (1..Len(g[nodeId])) \X (1..Len(g[nodeId])) :
                    LET n1 == g[nodeId][p[1]].target
                        n2 == g[nodeId][p[2]].target
                    IN  n1 # n2 /\ n1 \in DOMAIN g /\ PointsTo(g, n1, n2) })

calculateClusterDensity(g, nodeId) ==
    IF Len(g[nodeId]) < 2 THEN 0
    ELSE (Connections(g, nodeId) * Unit) \div (Len(g[nodeId]) * (Len(g[nodeId]) - 1))

\* Math.round of a non-negative number in millionths
Round(x) == (x + Unit \div 2) \div Unit

\* 0.4 * (pagerank * 1000) + 0.3 * (centrality * 100) + 0.3 * (density * 100)
WeightedScore(pagerank, centrality, clusterDensity) ==
    400 * pagerank + 30 * centrality + 30 * clusterDensity

UnboundedScore(pagerank, centrality, clusterDensity) ==
    Round(WeightedScore(pagerank, centrality, clusterDensity))

\* score: Math.min(Math.round(score), 100)
Score(pagerank, centrality, clusterDensity) ==
    IF Round(WeightedScore(pagerank, centrality, clusterDensity)) < 100
    THEN Round(WeightedScore(pagerank, centrality, clusterDensity))
    ELSE 100

\* Array.from(this.nodes.values()).find(n => n.entity_value === value): the
\* position of the first node with the value, 0 for none
FindByValue(m, value) ==
    IF \E i \in 1..Len(m) : m[i].entity_value = value
    THEN CHOOSE i \in 1..Len(m) :
            /\ m[i].entity_value = value
            /\ \A j \in 1..(i - 1) : m[j].entity_value # value
    ELSE 0

\* calculateGraphScore after buildGraph.  found = FALSE is the result
\* { score: 0, details: {} }; otherwise the other fields are the score and
\* the details (id is the node the details are about).
GraphScore(m, g, value) ==
    LET i == FindByValue(m, value) IN
    IF i > 0
    THEN LET pagerank == calculatePageRank(m, g)[i]
             centrality == calculateCentrality(m, g, m[i].id)
             clusterDensity == calculateClusterDensity(g, m[i].id)
         IN  [ found |-> TRUE, id |-> m[i].id,
               score |-> Score(pagerank, centrality, clusterDensity),
               pagerank |-> pagerank, centrality |-> centrality,
               clusterDensity |-> clusterDensity,
               neighbors |-> Len(g[m[i].id]) ]
    ELSE [ found |-> FALSE, id |-> 0, score |-> 0, pagerank |-> 0, centrality |-> 0,
           clusterDensity |-> 0, neighbors |-> 0 ]

----------------------------------------------------------------------------
(* Graph engine: the calls, one action per storage callback *)

Slots == 1..MaxCalls
AllIdle == \A s \in Slots : calls[s] = Idle
HasFree == \E s \in Slots : calls[s] = Idle
FreeSlot ==
    IF HasFree
    THEN CHOOSE s \in Slots : calls[s] = Idle /\ \A t \in 1..(s - 1) : calls[t] # Idle
    ELSE 0

\* the (type, value) of the addNode call that call c is in
NodeArg(c) ==
    IF c.kind = "addNode" THEN [type |-> c.type, value |-> c.value] ELSE c.rows[c.i]

\* where a build goes once the rows are added: to the INSERT of the first
\* edge the sampling loops pick, or to its end when they pick none
AfterRows(c, m) ==
    { [c EXCEPT !.pc = "edge", !.cands = Candidates(m), !.k = k] :
          k \in 1..Len(Candidates(m)) }
        \cup { [c EXCEPT !.pc = "done"] }

\* after an edge is added: to the next edge the loops pick, or to the end
AfterEdge(c) ==
    { [c EXCEPT !.k = k] : k \in (c.k + 1)..Len(c.cands) }
        \cup { [c EXCEPT !.pc = "done"] }

\* after addNode resolves: addNode itself is done; a build adds its next row
AfterNode(c, m) ==
    IF c.kind = "addNode" THEN { [c EXCEPT !.pc = "done"] }
    ELSE IF c.i < Len(c.rows) THEN { [c EXCEPT !.pc = "select", !.i = c.i + 1] }
    ELSE AfterRows(c, m)

\* what call c returns when it ends in this step: addNode the identifier;
\* calculateGraphScore the score, computed on the caches as the last step
\* of its buildGraph leaves them
Return(c, id) ==
    IF c.kind = "addNode"
    THEN GraphRet("addNode", [type |-> c.type, value |-> c.value], "resolved", id)
    ELSE GraphRet("calculateGraphScore", c.value, "resolved",
                  GraphScore(nodes', graph', c.value))

\* the call in slot s goes on as nc, or ends and returns
Settle(s, nc, id) ==
    IF nc.pc = "done"
    THEN /\ calls' = [calls EXCEPT ![s] = Idle]
         /\ graphRet' = Return(nc, id)
    ELSE /\ calls' = [calls EXCEPT ![s] = nc]
         /\ UNCHANGED graphRet

\* an INSERT failed.  addNode rejects; inside createRelationshipsFromEvents
\* the rejection is thrown in the async storage callback, where nothing
\* handles it, and the promise of the build never settles
Fail(s) ==
    /\ calls' = [calls EXCEPT ![s] = Idle]
    /\ graphRet' = IF calls[s].kind = "addNode"
                   THEN GraphRet("addNode", NodeArg(calls[s]), "rejected", 0)
                   ELSE GraphRet(calls[s].kind, calls[s].value, "pending", 0)

\* the callback of addEdge's INSERT
InsertEdge(e) ==
    LET row == EdgeRow(Len(dbEdges) + 1, e.source_node, e.target_node,
                       e.relation_type, e.weight)
    IN  /\ dbEdges' = Append(dbEdges, row)
        /\ edges' = Append(edges, row)
        /\ graph' = Push(graph, row)

\* a call starts (c), or runs as a whole, beside the calls in flight
Beside(c) ==
    [s \in Slots |->
        IF calls[s] = Idle
        THEN IF s = FreeSlot THEN [c EXCEPT !.overlap = ~AllIdle] ELSE Idle
        ELSE [calls[s] EXCEPT !.overlap = TRUE]]

BeginAddNode ==
    \E a \in NodeArgs :
        /\ HasFree
        /\ calls' = Beside(Call("addNode", "select", a.type, a.value, <<>>, 0, <<>>, 0))
        /\ UNCHANGED <<dbNodes, dbEdges, nodes, graph, edges, builds, graphRet,
                       notGraphVars>>

\* addEdge has one storage statement: the call and its callback are one step
AddEdge ==
    \E e \in EdgeArgs :
        /\ IF Len(dbEdges) < MaxEdges
           THEN /\ InsertEdge(e)
                /\ graphRet' = GraphRet("addEdge", "", "resolved", Len(dbEdges) + 1)
           ELSE /\ graphRet' = GraphRet("addEdge", "", "rejected", 0)
                /\ UNCHANGED <<dbEdges, edges, graph>>
        /\ calls' = [s \in Slots |->
                        IF calls[s] = Idle THEN Idle ELSE [calls[s] EXCEPT !.overlap = TRUE]]
        /\ UNCHANGED <<dbNodes, nodes, builds, notGraphVars>>

\* calculateGraphScore(indicatorValue), which starts with buildGraph()
BeginScore ==
    \E v \in ValueArgs :
        /\ HasFree
        /\ builds < MaxBuilds
        /\ calls' = Beside(Call("calculateGraphScore", "loadNodes", "", v, <<>>, 0, <<>>, 0))
        /\ builds' = builds + 1
        /\ UNCHANGED <<dbNodes, dbEdges, nodes, graph, edges, graphRet, notGraphVars>>

LoadNodes ==
    \E s \in Slots :
        /\ calls[s].pc = "loadNodes"
        /\ nodes' = SetAll(nodes, dbNodes)
        /\ calls' = [calls EXCEPT ![s].pc = "loadEdges"]
        /\ UNCHANGED <<dbNodes, dbEdges, graph, edges, builds, graphRet, notGraphVars>>

LoadEdges ==
    \E s \in Slots :
        /\ calls[s].pc = "loadEdges"
        /\ edges' = dbEdges
        /\ graph' = PushAll(graph, dbEdges)
        /\ calls' = [calls EXCEPT ![s].pc = "relSelect"]
        /\ UNCHANGED <<dbNodes, dbEdges, nodes, builds, graphRet, notGraphVars>>

RelSelect ==
    \E s \in Slots, rows \in JoinRowArgs :
        /\ calls[s].pc = "relSelect"
        /\ UNCHANGED <<dbNodes, dbEdges, nodes, graph, edges, builds, notGraphVars>>
        /\ IF rows = <<>>
           THEN \E nc \in AfterRows(calls[s], nodes) : Settle(s, nc, 0)
           ELSE /\ calls' = [calls EXCEPT ![s].pc = "select", ![s].rows = rows,
                                          ![s].i = 1]
                /\ UNCHANGED graphRet

NodeSelect ==
    \E s \in Slots :
        /\ calls[s].pc = "select"
        /\ UNCHANGED <<dbNodes, dbEdges, nodes, graph, edges, builds, notGraphVars>>
        /\ LET a == NodeArg(calls[s])
               idx == FindNode(dbNodes, a.value, a.type)
           IN  IF idx > 0
               THEN \E nc \in AfterNode(calls[s], nodes) : Settle(s, nc, dbNodes[idx].id)
               ELSE /\ calls' = [calls EXCEPT ![s].pc = "insert"]
                    /\ UNCHANGED graphRet

NodeInsert ==
    \E s \in Slots :
        /\ calls[s].pc = "insert"
        /\ UNCHANGED <<dbEdges, edges, builds, notGraphVars>>
        /\ IF Len(dbNodes) < MaxNodes
           THEN LET a == NodeArg(calls[s])
                    row == NodeRow(Len(dbNodes) + 1, a.type, a.value)
                IN  /\ dbNodes' = Append(dbNodes, row)
                    /\ nodes' = MapSet(nodes, row)
                    /\ graph' = [graph EXCEPT ![row.id] = <<>>]
                    /\ \E nc \in AfterNode(calls[s], nodes') : Settle(s, nc, row.id)
           ELSE /\ UNCHANGED <<dbNodes, nodes, graph>>
                /\ Fail(s)

EdgeInsert ==
    \E s \in Slots :
        /\ calls[s].pc = "edge"
        /\ UNCHANGED <<dbNodes, nodes, builds, notGraphVars>>
        /\ IF Len(dbEdges) < MaxEdges
           THEN /\ InsertEdge(calls[s].cands[calls[s].k])
                /\ \E nc \in AfterEdge(calls[s]) : Settle(s, nc, 0)
           ELSE /\ UNCHANGED <<dbEdges, edges, graph>>
                /\ Fail(s)

\* the while loop of detectCommunities: the traversal from the nodes in
\* queue, given the nodes visited so far and the community so far
RECURSIVE Traverse(_, _, _, _)
Traverse(g, queue, visited, community) ==
    IF queue = <<>> THEN [visited |-> visited, community |-> community]
    ELSE IF Head(queue) \in visited
         THEN Traverse(g, Tail(queue), visited, community)
         ELSE LET node == Head(queue)
                  neighbors == IF node \in DOMAIN g THEN g[node] ELSE <<>>
                  pushed == SelectSeq(neighbors,
                               LAMBDA n : n.target \notin visited \cup {node}
                                            /\ n.weight > 5)
              IN  Traverse(g,
                           Tail(queue) \o [k \in 1..Len(pushed) |-> pushed[k].target],
                           visited \cup {node}, community \cup {node})

\* nodeIds.forEach(startNode => ...), from the i-th key of this.nodes on
RECURSIVE Communities(_, _, _, _)
Communities(m, g, i, visited) ==
    IF i > Len(m) THEN <<>>
    ELSE IF m[i].id \in visited THEN Communities(m, g, i + 1, visited)
    ELSE LET found == Traverse(g, << m[i].id >>, visited, {})
         IN  IF found.community = {}
             THEN Communities(m, g, i + 1, found.visited)
             ELSE << found.community >> \o Communities(m, g, i + 1, found.visited)

detectCommunities(m, g) == Communities(m, g, 1, {})

\* detectCommunities() runs on the caches in one step
DetectCommunities ==
    /\ AllIdle
    /\ graphRet' = GraphRet("detectCommunities", "", "resolved",
                            detectCommunities(nodes, graph))
    /\ UNCHANGED <<dbNodes, dbEdges, nodes, graph, edges, calls, builds, notGraphVars>>

\* calls made one after another: a call starts when none is in flight
SeqAddNode == AllIdle /\ BeginAddNode
SeqAddEdge == AllIdle /\ AddEdge
SeqScore == AllIdle /\ BeginScore

NextGraphSeq ==
    \/ SeqAddNode \/ SeqAddEdge \/ SeqScore \/ DetectCommunities
    \/ LoadNodes \/ LoadEdges \/ RelSelect \/ NodeSelect \/ NodeInsert \/ EdgeInsert

SpecGraphSeq == Init /\ [][NextGraphSeq]_vars

\* calls made while others are in flight
NextGraph ==
    \/ BeginAddNode \/ AddEdge \/ BeginScore
    \/ LoadNodes \/ LoadEdges \/ RelSelect \/ NodeSelect \/ NodeInsert \/ EdgeInsert

SpecGraph == Init /\ [][NextGraph]_vars

----------------------------------------------------------------------------
(* Graph engine: properties *)

\* the rows of graph_nodes for a (type, value) pair
MatchingRows(db, a) ==
    {i \in 1..Len(db) : db[i].entity_type = a.type /\ db[i].entity_value = a.value}

\* a call of the given kind in slot s ends in this step, resolved
Resolves(s, kind) ==
    calls[s].kind = kind /\ calls'[s] = Idle /\ graphRet'.status = "resolved"

\* C6: with calls made one after another, addNode returns the identifier of
\* the persisted node of the pair and creates nothing when there is one, and
\* creates exactly one node otherwise; the pair then has exactly one node,
\* and addNode called again for the pair returns the same identifier.
C6_AddNodeIdempotent ==
    [][ \A s \in Slots : Resolves(s, "addNode") =>
          LET a == NodeArg(calls[s]) IN
          /\ IF MatchingRows(dbNodes, a) # {}
             THEN /\ dbNodes' = dbNodes
                  /\ \E i \in MatchingRows(dbNodes, a) : dbNodes[i].id = graphRet'.ret
             ELSE Len(dbNodes') = Len(dbNodes) + 1
          /\ {dbNodes'[i].id : i \in MatchingRows(dbNodes', a)} = {graphRet'.ret}
          /\ (graphRet.op = "addNode" /\ graphRet.status = "resolved" /\ graphRet.arg = a)
                => graphRet'.ret = graphRet.ret
      ]_vars

\* addNode has returned the first node's identifier again after a second
\* pair was added: the pair of node 1 was passed to addNode twice
C6_Witness ==
    /\ AllIdle /\ builds = 0
    /\ graphRet.op = "addNode" /\ graphRet.status = "resolved"
    /\ Len(dbNodes) = 2 /\ graphRet.ret = 1

\* C7: there is never more than one graph node per (entity_type,
\* entity_value), also while addNode calls for the same pair are in flight
\* together.
C7_OneNodePerPair ==
    \A i, j \in 1..Len(dbNodes) :
        (dbNodes[i].entity_type = dbNodes[j].entity_type
            /\ dbNodes[i].entity_value = dbNodes[j].entity_value) => i = j

PersistedIds == {dbNodes[i].id : i \in 1..Len(dbNodes)}

\* C8: every edge of the graph, persisted, in the edge list and in the
\* adjacency lists, has a source and a target that are identifiers of
\* persisted nodes.
C8_NoDanglingEdges ==
    /\ \A i \in 1..Len(dbEdges) :
          dbEdges[i].source_node \in PersistedIds /\ dbEdges[i].target_node \in PersistedIds
    /\ \A i \in 1..Len(edges) :
          edges[i].source_node \in PersistedIds /\ edges[i].target_node \in PersistedIds
    /\ \A id \in NodeIds : \A i \in 1..Len(graph[id]) :
          id \in PersistedIds /\ graph[id][i].target \in PersistedIds

\* the adjacency list of id in a graph with the given edge rows
Adjacency(rows, id) ==
    LET out == SelectSeq(rows, LAMBDA e : e.source_node = id)
    IN  [i \in 1..Len(out) |-> Neighbor(out[i])]

\* the caches hold the nodes ns and the edges es, each edge once
CachesHold(m, g, ns, es) ==
    /\ Len(m) = Len(ns)
    /\ {m[i] : i \in 1..Len(m)} = {ns[i] : i \in 1..Len(ns)}
    /\ \A id \in NodeIds : g[id] = Adjacency(es, id)

\* C9: when buildGraph is done (here: calculateGraphScore has returned and
\* nothing has run since), the node map and the adjacency lists equal the
\* persisted graph, each persisted edge once in the list of its source.
\* Stated for the graphs C8 allows, those without a dangling edge.
C9_CachesEqualStore ==
    (/\ AllIdle /\ graphRet.op = "calculateGraphScore" /\ graphRet.status = "resolved"
     /\ C8_NoDanglingEdges)
        => (CachesHold(nodes, graph, dbNodes, dbEdges) /\ edges = dbEdges)

\* C10: a calculateGraphScore call that ran beside another call computes its
\* metrics on caches that equal one persisted snapshot.  The tables only
\* grow, so a snapshot is a prefix of each table.  Stated for the graphs C8
\* allows, those without a dangling edge.
C10_ScoresOnOneSnapshot ==
    [][ \A s \in Slots :
          (/\ Resolves(s, "calculateGraphScore") /\ calls[s].overlap
           /\ C8_NoDanglingEdges') =>
              \E n \in 0..Len(dbNodes') : \E e \in 0..Len(dbEdges') :
                  CachesHold(nodes', graph', SubSeq(dbNodes', 1, n), SubSeq(dbEdges', 1, e))
      ]_vars

\* the tolerance of a sum of ranks: a thousandth
RankTolerance == Unit \div 1000

\* C11: on every graph the caches can hold that has a node, calculatePageRank
\* returns non-negative ranks over all the nodes that sum to 1.
C11_PageRankSumsToOne ==
    Len(nodes) > 0 =>
        LET pagerank == calculatePageRank(nodes, graph) IN
        /\ Len(pagerank) = Len(nodes)
        /\ \A i \in 1..Len(pagerank) : pagerank[i] >= 0
        /\ SumSeq(pagerank) >= Unit - RankTolerance
        /\ SumSeq(pagerank) <= Unit + RankTolerance

\* C12: calculateGraphScore returns a score in 0..100: 0 with empty details
\* when no node of the caches has the value, and otherwise, for the first
\* node with the value, round(min(100, 400*pagerank + 30*centrality +
\* 30*clusterDensity)) with the three metrics in the details.
C12_GraphScoreFormula ==
    [][ \A s \in Slots : Resolves(s, "calculateGraphScore") =>
          LET r == graphRet'.ret
              i == FindByValue(nodes', calls[s].value)
          IN  /\ r.score \in 0..100
              /\ r.found = (i > 0)
              /\ i = 0 => r.score = 0
              /\ i > 0 =>
                   LET w == 400 * r.pagerank + 30 * r.centrality + 30 * r.clusterDensity
                       capped == IF w < 100 * Unit THEN w ELSE 100 * Unit
                   IN  /\ r.score = Round(capped)
                       /\ r.pagerank = calculatePageRank(nodes', graph')[i]
                       /\ r.centrality = calculateCentrality(nodes', graph', nodes'[i].id)
                       /\ r.clusterDensity = calculateClusterDensity(graph', nodes'[i].id)
      ]_vars

\* calculateGraphScore has returned a score that the cap of 100 cut down
C12_Witness ==
    /\ AllIdle
    /\ graphRet.op = "calculateGraphScore" /\ graphRet.status = "resolved"
    /\ graphRet.ret.found
    /\ graphRet.ret.score = 100
    /\ WeightedScore(graphRet.ret.pagerank, graphRet.ret.centrality,
                     graphRet.ret.clusterDensity) > 101 * Unit

----------------------------------------------------------------------------
(* Graph engine: communities *)

\* detectCommunities runs in this step, on nodes and graph
Detects == AllIdle /\ calls' = calls /\ graphRet'.op = "detectCommunities"

CacheIds == {nodes[i].id : i \in 1..Len(nodes)}

\* the community (its position in the result) that holds identifier id, 0
\* for none
CommunityOf(communities, id) ==
    IF \E k \in 1..Len(communities) : id \in communities[k]
    THEN CHOOSE k \in 1..Len(communities) : id \in communities[k]
    ELSE 0

\* nodes a and b are joined by an edge of weight above 0.5, in either
\* direction
Joined(a, b) ==
    \/ \E k \in 1..Len(graph[a]) : graph[a][k].target = b /\ graph[a][k].weight > 5
    \/ \E k \in 1..Len(graph[b]) : graph[b][k].target = a /\ graph[b][k].weight > 5

\* the nodes reachable from a over edges of weight above 0.5, whatever
\* their direction, in at most n steps
RECURSIVE Component(_, _)
Component(reached, n) ==
    IF n = 0 THEN reached
    ELSE Component(reached \cup {b \in CacheIds : \E a \in reached : Joined(a, b)}, n - 1)

\* C25: the communities are the connected components of the nodes under the
\* edges of weight above 0.5: two nodes joined by such an edge, in either
\* direction, are in the same community, and two nodes are in the same
\* community only when a path of such edges joins them.
C25_CommunitiesAreComponents ==
    [][ Detects =>
          \A a, b \in CacheIds :
              (CommunityOf(graphRet'.ret, a) = CommunityOf(graphRet'.ret, b))
                  <=> (b \in Component({a}, Len(nodes)))
      ]_vars

\* C30: the communities partition the node set: every node is in exactly
\* one community, no community is empty, and no community holds an
\* identifier that is not a node.
C30_CommunitiesPartitionNodes ==
    [][ Detects =>
          LET communities == graphRet'.ret IN
          /\ \A id \in CacheIds :
                Cardinality({k \in 1..Len(communities) : id \in communities[k]}) = 1
          /\ \A k, l \in 1..Len(communities) :
                k # l => communities[k] \cap communities[l] = {}
          /\ \A k \in 1..Len(communities) :
                communities[k] # {} /\ communities[k] \subseteq CacheIds
      ]_vars

----------------------------------------------------------------------------
(* Ingestion pipeline: /analyze, /ingest/batch and ingestEvents *)

\* the raw events handed to the pipeline.  confidence 0 is a raw event
\* without a confidence; confidences in tenths.
Values == {"alpha"}
ConfidenceArgs == {0, 9}
EventArgs == [type : {"IP"}, value : Values, confidence : ConfidenceArgs]

\* the arrays handed to /ingest/batch and to ingestEvents
BatchArgs ==
    UNION { [1..n -> EventArgs] : n \in 0..MaxBatch }

\* rawEvent.confidence || 0.5
Observed(confidence) == IF confidence = 0 THEN 5 ELSE confidence

\* the events of a run, numbered in the order the pipeline received them
Stamp(items, from) ==
    [k \in 1..Len(items) |->
        [ type |-> items[k].type, value |-> items[k].value,
          confidence |-> Observed(items[k].confidence), seq |-> from + k ]]

RunSlots == 1..MaxRuns
HasFreeRun == \E s \in RunSlots : runs[s] = IdleRun
FreeRun ==
    IF HasFreeRun
    THEN CHOOSE s \in RunSlots : runs[s] = IdleRun /\ \A t \in 1..(s - 1) : runs[t] # IdleRun
    ELSE 0

\* SELECT id FROM indicators WHERE value = ? AND type = ? (db.get: the first
\* row, 0 for none)
FindIndicator(db, value, type) ==
    IF \E i \in 1..Len(db) : db[i].value = value /\ db[i].type = type
    THEN CHOOSE i \in 1..Len(db) :
            /\ db[i].value = value /\ db[i].type = type
            /\ \A j \in 1..(i - 1) : ~(db[j].value = value /\ db[j].type = type)
    ELSE 0

Max(a, b) == IF a > b THEN a ELSE b

\* UPDATE indicators SET ..., confidence = ? (the observed one)
Overwrite(old, observed) == observed

\* UPDATE indicators SET ..., confidence = MAX(confidence, ?)
MaxMerge(old, observed) == Max(old, observed)

\* the confidence storeIndicator leaves in the row it found: ingestion's
\* storeIndicator merges, the server's updates last_seen only
UpdatedConfidence(kind, old, observed) ==
    IF kind = "ingestEvents" THEN MaxMerge(old, observed) ELSE old

\* the confidence of the row storeIndicator inserts: ingestion's the
\* observed one, the server's 0.5
InsertedConfidence(kind, observed) ==
    IF kind = "ingestEvents" THEN observed ELSE 5

\* the step a run starts each event with, and the step after each step.
\* The handlers: normalize and extractFeatures, storeIndicator (SELECT, then
\* UPDATE or INSERT), storeEvent, the three engines, storeAlert, updateGraph.
\* ingestEvent: normalize and storeIndicator, storeEvent.
FirstPc(kind) == IF kind = "ingestEvents" THEN "select" ELSE "features"

AlertBeforeIndicator(kind, pc) ==
    CASE pc = "features" -> "engines"
      [] pc = "select"   -> "write"
      [] pc = "write"    -> "event"
      [] pc = "event"    -> "done"
      [] pc = "engines"  -> "alert"
      [] pc = "alert"    -> "select"
      [] pc = "graph"    -> "done"

PcAfter(kind, pc) ==
    CASE pc = "features" -> "select"
      [] pc = "select"   -> "write"
      [] pc = "write"    -> "event"
      [] pc = "event"    -> IF kind = "ingestEvents" THEN "done" ELSE "engines"
      [] pc = "engines"  -> "alert"
      [] pc = "alert"    -> "graph"
      [] pc = "graph"    -> "done"

\* whether a run goes on to its next event after one that failed or not
StopsAtFailure(r, success) == success /\ r.kind # "analyze" /\ r.i < Len(r.items)

GoesOn(r, success) == r.kind # "analyze" /\ r.i < Len(r.items)

\* the event of run s is through, with or without success: the result is
\* recorded and the run goes to its next event, or ends and answers
EndItem(s, success) ==
    LET r == runs[s]
        results == Append(r.results, [item |-> r.i, success |-> success])
    IN  IF GoesOn(r, success)
        THEN /\ runs' = [runs EXCEPT ![s] = Run(r.kind, FirstPc(r.kind), r.items, r.i + 1,
                                                 0, 0, results)]
             /\ UNCHANGED response
        ELSE /\ runs' = [runs EXCEPT ![s] = IdleRun]
             /\ response' = Response(r.kind,
                                     IF r.kind = "analyze" /\ ~success THEN 500 ELSE 200,
                                     r.items[1].seq, Len(r.items), results)

\* the step of run s is done: on to the next step, or the event is through
StepDone(s) ==
    LET r == runs[s] IN
    IF PcAfter(r.kind, r.pc) = "done"
    THEN EndItem(s, TRUE)
    ELSE /\ runs' = [runs EXCEPT ![s].pc = PcAfter(r.kind, r.pc)]
         /\ UNCHANGED response

\* a request or call arrives with its events
Start(kind, items) ==
    /\ received + Len(items) <= MaxReceived
    /\ received' = received + Len(items)
    /\ IF items = <<>>
       THEN /\ response' = Response(kind, 200, received + 1, 0, <<>>)
            /\ UNCHANGED runs
       ELSE /\ runs' = [runs EXCEPT ![FreeRun] =
                         Run(kind, FirstPc(kind), Stamp(items, received), 1, 0, 0, <<>>)]
            /\ UNCHANGED response
    /\ UNCHANGED <<indicators, dbEvents, alerts, notPipeVars>>

\* POST /analyze
Analyze == \E ev \in EventArgs : HasFreeRun /\ Start("analyze", <<ev>>)

\* POST /ingest/batch
IngestBatch == \E items \in BatchArgs : HasFreeRun /\ Start("batch", items)

\* IngestionService.ingestEvents(rawEvents)
IngestEvents == \E items \in BatchArgs : HasFreeRun /\ Start("ingestEvents", items)

\* normalizeEvent and extractFeatures return, or one of them throws
ExtractFeatures ==
    \E s \in RunSlots, ok \in BOOLEAN :
        /\ runs[s].pc = "features"
        /\ IF ok THEN StepDone(s) ELSE EndItem(s, FALSE)
        /\ UNCHANGED <<indicators, dbEvents, alerts, received, notPipeVars>>

\* storeIndicator: the callback of the SELECT (in ingestEvent, after
\* normalizeEvent), with a row, without one, or with an error
IndicatorSelect ==
    \E s \in RunSlots, ok \in BOOLEAN :
        /\ runs[s].pc = "select"
        /\ LET ev == runs[s].items[runs[s].i] IN
           IF ok
           THEN /\ runs' = [runs EXCEPT
                              ![s].pc = PcAfter(runs[s].kind, "select"),
                              ![s].row = FindIndicator(indicators, ev.value, ev.type)]
                /\ UNCHANGED response
           ELSE EndItem(s, FALSE)
        /\ UNCHANGED <<indicators, dbEvents, alerts, received, notPipeVars>>

\* storeIndicator: the callback of the UPDATE of the row found, or of the
\* INSERT of a new row
IndicatorWrite ==
    \E s \in RunSlots, ok \in BOOLEAN :
        /\ runs[s].pc = "write"
        /\ LET r == runs[s]
               ev == r.items[r.i]
           IN  IF ~ok
               THEN /\ EndItem(s, FALSE)
                    /\ UNCHANGED indicators
               ELSE IF r.row > 0
               THEN /\ indicators' =
                         [indicators EXCEPT ![r.row].confidence =
                             UpdatedConfidence(r.kind, @, ev.confidence)]
                    /\ runs' = [runs EXCEPT ![s].pc = PcAfter(r.kind, "write"),
                                            ![s].id = indicators[r.row].id]
                    /\ UNCHANGED response
               ELSE /\ indicators' =
                         Append(indicators,
                                [ id |-> Len(indicators) + 1, type |-> ev.type,
                                  value |-> ev.value,
                                  confidence |-> InsertedConfidence(r.kind, ev.confidence) ])
                    /\ runs' = [runs EXCEPT ![s].pc = PcAfter(r.kind, "write"),
                                            ![s].id = Len(indicators) + 1]
                    /\ UNCHANGED response
        /\ UNCHANGED <<dbEvents, alerts, received, notPipeVars>>

\* storeEvent: the callback of the INSERT
StoreEvent ==
    \E s \in RunSlots, ok \in BOOLEAN :
        /\ runs[s].pc = "event"
        /\ IF ok
           THEN /\ dbEvents' = Append(dbEvents,
                                      [ indicator_id |-> runs[s].id,
                                        seq |-> runs[s].items[runs[s].i].seq ])
                /\ StepDone(s)
           ELSE /\ EndItem(s, FALSE)
                /\ UNCHANGED dbEvents
        /\ UNCHANGED <<indicators, alerts, received, notPipeVars>>

\* ruleEngine.evaluate, mlEngine.detectAnomaly and graphEngine.calculateRisk
\* return, or one of them throws
RunEngines ==
    \E s \in RunSlots, ok \in BOOLEAN :
        /\ runs[s].pc = "engines"
        /\ IF ok THEN StepDone(s) ELSE EndItem(s, FALSE)
        /\ UNCHANGED <<indicators, dbEvents, alerts, received, notPipeVars>>

\* storeAlert: the callback of the INSERT.  value and seq are history: the
\* indicator value and the number of the event the alert is about.
StoreAlert ==
    \E s \in RunSlots, ok \in BOOLEAN :
        /\ runs[s].pc = "alert"
        /\ IF ok
           THEN /\ alerts' = Append(alerts,
                                    [ id |-> Len(alerts) + 1,
                                      indicator_id |-> runs[s].id,
                                      value |-> runs[s].items[runs[s].i].value,
                                      seq |-> runs[s].items[runs[s].i].seq ])
                /\ StepDone(s)
           ELSE /\ EndItem(s, FALSE)
                /\ UNCHANGED alerts
        /\ UNCHANGED <<indicators, dbEvents, received, notPipeVars>>

\* graphEngine.updateGraph returns or throws
UpdateGraph ==
    \E s \in RunSlots, ok \in BOOLEAN :
        /\ runs[s].pc = "graph"
        /\ IF ok THEN StepDone(s) ELSE EndItem(s, FALSE)
        /\ UNCHANGED <<indicators, dbEvents, alerts, received, notPipeVars>>

NextPipeline ==
    \/ Analyze \/ IngestBatch \/ IngestEvents
    \/ ExtractFeatures \/ IndicatorSelect \/ IndicatorWrite \/ StoreEvent
    \/ RunEngines \/ StoreAlert \/ UpdateGraph

SpecPipeline == Init /\ [][NextPipeline]_vars

----------------------------------------------------------------------------
(* Ingestion pipeline: properties *)

\* the number the k-th event of the run that answered last was received as
SeqOfItem(k) == response.first + k - 1

\* C13: a batch (ingestEvents, /ingest/batch) answers with one result per
\* event, in the order of the events; an event that failed has a failure
\* entry and the events after it have theirs; an event reported as a success
\* was stored (and, in the handler, its alert was); successful + failed =
\* total.
C13_BatchProcessesEveryItem ==
    response.op \in {"batch", "ingestEvents"} =>
        /\ Len(response.results) = response.total
        /\ \A k \in 1..Len(response.results) : response.results[k].item = k
        /\ response.successful + response.failed = response.total
        /\ \A k \in 1..Len(response.results) :
              response.results[k].success =>
                  /\ \E e \in 1..Len(dbEvents) : dbEvents[e].seq = SeqOfItem(k)
                  /\ response.op = "batch" =>
                        \E a \in 1..Len(alerts) : alerts[a].seq = SeqOfItem(k)

\* /ingest/batch has answered for two events, the first failed and the
\* second processed
C13_Witness ==
    /\ response.op = "batch" /\ response.total = 2
    /\ Len(response.results) = 2
    /\ ~response.results[1].success
    /\ response.results[2].success

\* C14: no step removes an indicator or lowers its confidence; a row is
\* created by a storeIndicator whose SELECT found none, and the confidence
\* of a row changes only to max(old, observed) in a storeIndicator that
\* found the row.
C14_ConfidenceNeverDecreases ==
    [][ /\ Len(indicators') >= Len(indicators)
        /\ \A k \in 1..Len(indicators) :
              /\ indicators'[k].id = indicators[k].id
              /\ indicators'[k].type = indicators[k].type
              /\ indicators'[k].value = indicators[k].value
              /\ indicators'[k].confidence >= indicators[k].confidence
              /\ indicators'[k].confidence # indicators[k].confidence =>
                    \E s \in RunSlots :
                        /\ runs[s].pc = "write" /\ runs[s].row = k
                        /\ indicators'[k].confidence =
                              Max(indicators[k].confidence,
                                  runs[s].items[runs[s].i].confidence)
        /\ Len(indicators') > Len(indicators) =>
              /\ Len(indicators') = Len(indicators) + 1
              /\ \E s \in RunSlots :
                    /\ runs[s].pc = "write" /\ runs[s].row = 0
                    /\ indicators'[Len(indicators')].value =
                          runs[s].items[runs[s].i].value
      ]_vars

\* ingestion's storeIndicator has just updated an indicator of confidence
\* 0.9 for an event observed with confidence 0.5
C14_Witness ==
    \E s \in RunSlots :
        /\ runs[s].kind = "ingestEvents" /\ runs[s].pc = "event"
        /\ runs[s].row > 0
        /\ runs[s].items[runs[s].i].confidence = 5
        /\ indicators[runs[s].row].confidence = 9

\* C15: every stored alert has the id of a stored indicator, from the state
\* in which the alert is stored on.
C15_AlertsReferenceIndicators ==
    \A a \in 1..Len(alerts) :
        \E k \in 1..Len(indicators) : indicators[k].id = alerts[a].indicator_id

\* two alerts are stored for one indicator: the second run found the
\* indicator the first had created
C15_Witness ==
    /\ Len(alerts) >= 2
    /\ Len(indicators) = 1
    /\ alerts[1].indicator_id = 1 /\ alerts[2].indicator_id = 1

\* C16: the alerts of one indicator value are stored in the order their
\* events were received, also when pipeline runs overlap.
C16_AlertsInReceiptOrder ==
    \A i, j \in 1..Len(alerts) :
        (i < j /\ alerts[i].value = alerts[j].value) => alerts[i].seq < alerts[j].seq

----------------------------------------------------------------------------
(* Rule engine: the brute_force_ssh threshold *)

\* the sum of the frequency values of the failed_login events on port 22
SshAttempts(events) ==
    SumFrequency(SelectSeq(events,
        LAMBDA e : e.event_type = "failed_login" /\ e.port = 22))

Triggered(ruleId) ==
    \E k \in 1..Len(ruleRet.ret.matchedRules) : ruleRet.ret.matchedRules[k].id = ruleId

\* C17: evaluateRules reports brute_force_ssh exactly when the frequencies of
\* the indicator's failed_login events on port 22 sum to at least 200, and
\* with the default rules the score is then at least 30.
C17_BruteForceFrom200 ==
    EvaluatedFully =>
        /\ Triggered("brute_force_ssh") <=> SshAttempts(ruleRet.arg.events) >= 200
        /\ (rules = initializeRules /\ SshAttempts(ruleRet.arg.events) >= 200)
              => ruleRet.ret.score >= 30

----------------------------------------------------------------------------
(* Feature extraction: FeatureExtractionEngine *)

\* Units: counts, ports, payload sizes, the blacklist score and the
\* reputation are the source's numbers; timestamps are seconds since the
\* epoch; entropies, rates, the geo risk score, the time between events and
\* the z-score are in thousandths, divisions rounding down; the components
\* of the normalized vector are in thousandths (1.0 is 1000).

\* new Date().getTime(), in seconds
Now == 100000

\* a row of events: port 0, geo_location "" and payload_size 0 stand for
\* NULL (the filters of the engine test the fields for truthiness)
Row(type, timestamp, port, geo, payload, frequency) ==
    [ event_type |-> type, timestamp |-> timestamp, port |-> port,
      geo_location |-> geo, payload_size |-> payload, frequency |-> frequency ]

\* the event histories of an indicator
EventHistories ==
    { <<>>,
      << Row("failed_login", Now - 10, 22, "RU", 0, 250) >>,
      << Row("dns_query", Now - 30, 53, "", 500, 1),
         Row("dns_query", Now - 20, 53, "US", 1500, 1) >>,
      << Row("port_scan", Now - 5, 80, "CN", 0, 1),
         Row("c2_communication", Now - 4000, 443, "US", 2000, 1),
         Row("failed_login", Now - 3, 22, "RU", 0, 1) >>,
      << Row("dns_query", 10, 53, "", 0, 1),
         Row("dns_query", 9, 53, "", 0, 1) >> }

\* indicator.metadata: NULL, text that is not JSON, or a JSON object with
\* or without a reputation
Meta(text, has, reputation) == [text |-> text, has |-> has, reputation |-> reputation]

MetadataArgs ==
    { Meta("null", FALSE, 0), Meta("invalid", FALSE, 0), Meta("object", FALSE, 0),
      Meta("object", TRUE, 0), Meta("object", TRUE, 30), Meta("object", TRUE, 150) }

\* the stored indicators
IndicatorArgs ==
    [ type : {"IP", "domain"}, value : {"10.0.0.50", "8.8.8.8", "a.io"},
      confidence : {5}, metadata : MetadataArgs ]

\* what the storage does with the two reads of extractFeatures: both
\* succeed, the read of the events fails, the read of the indicator fails,
\* or the indicator has no row
StorageArgs == {"ok", "events_fail", "indicator_fail", "missing"}

ScoreInputs == [indicator : IndicatorArgs, events : EventHistories, storage : StorageArgs]

Min(a, b) == IF a < b THEN a ELSE b

\* the decimal digits of a number >= 0 (String(n))
RECURSIVE Digits(_)
Digits(n) == IF n < 10 THEN <<n>> ELSE Append(Digits(n \div 10), n % 10)

\* string comparison a <= b of two digit strings
RECURSIVE LexLeq(_, _)
LexLeq(a, b) ==
    IF a = <<>> THEN TRUE
    ELSE IF b = <<>> THEN FALSE
    ELSE IF Head(a) # Head(b) THEN Head(a) < Head(b)
    ELSE LexLeq(Tail(a), Tail(b))

\* array.sort() without a comparator: the elements ordered as strings
RECURSIVE InsertSorted(_, _)
InsertSorted(x, s) ==
    IF s = <<>> THEN <<x>>
    ELSE IF LexLeq(Digits(x), Digits(Head(s))) THEN <<x>> \o s
    ELSE <<Head(s)>> \o InsertSorted(x, Tail(s))

RECURSIVE Sort(_)
Sort(s) == IF s = <<>> THEN <<>> ELSE InsertSorted(Head(s), Sort(Tail(s)))

\* events.map(e => new Date(e.timestamp).getTime()), in milliseconds
Times(events) == [i \in 1..Len(events) |-> events[i].timestamp * 1000]

calculateEventFrequency(events) == Len(events)

\* the sum of the differences (times[i] - times[i-1]) / 1000, in thousandths
\* of a second
RECURSIVE SumDifferences(_, _)
SumDifferences(times, i) ==
    IF i > Len(times) THEN 0
    ELSE (times[i] - times[i - 1]) + SumDifferences(times, i + 1)

calculateTimeBetweenEvents(events) ==
    IF Len(events) < 2 THEN 0
    ELSE SumDifferences(Sort(Times(events)), 2) \div (Len(events) - 1)

\* recentEvents.length / windowSeconds * 60
calculateEventRate(events, windowSeconds) ==
    IF Len(events) = 0 THEN 0
    ELSE (Len(SelectSeq(events, LAMBDA e : Now - e.timestamp < windowSeconds))
            * 60 * 1000) \div windowSeconds

countUniqueEventTypes(events) ==
    Cardinality({events[i].event_type : i \in 1..Len(events)})

\* -(k/n) * Math.log2(k/n) in thousandths, rounded: PLog2[n][k]
PLog2 ==
    <<
       << 0 >>,
       << 500, 0 >>,
       << 528, 390, 0 >>,
       << 500, 500, 311, 0 >>,
       << 464, 529, 442, 258, 0 >>,
       << 431, 528, 500, 390, 219, 0 >>,
       << 401, 516, 524, 461, 347, 191, 0 >>,
       << 375, 500, 531, 500, 424, 311, 169, 0 >>,
       << 352, 482, 528, 520, 471, 390, 282, 151, 0 >>
    >>

\* the counts of the distinct values of a list (the values of typeCounts,
\* portCounts, charCounts)
RECURSIVE Tally(_)
Tally(s) ==
    IF s = <<>> THEN <<>>
    ELSE << Len(SelectSeq(s, LAMBDA x : x = Head(s))) >>
            \o Tally(SelectSeq(s, LAMBDA x : x # Head(s)))

RECURSIVE EntropySum(_, _)
EntropySum(values, total) ==
    IF values = <<>> THEN 0
    ELSE (IF Head(values) > 0 THEN PLog2[total][Head(values)] ELSE 0)
            + EntropySum(Tail(values), total)

calculateEntropy(values) ==
    IF SumSeq(values) = 0 THEN 0 ELSE EntropySum(values, SumSeq(values))

calculateEventTypeDiversity(events) ==
    IF Len(events) = 0 THEN 0
    ELSE calculateEntropy(Tally([i \in 1..Len(events) |-> events[i].event_type]))

Ports(events) ==
    LET with == SelectSeq(events, LAMBDA e : e.port # 0)
    IN  [i \in 1..Len(with) |-> with[i].port]

calculatePortEntropy(events) ==
    IF Len(Ports(events)) = 0 THEN 0 ELSE calculateEntropy(Tally(Ports(events)))

HighRiskCountries == {"RU", "CN", "KP", "IR"}

calculateGeoRiskScore(events) ==
    LET geoEvents == SelectSeq(events, LAMBDA e : e.geo_location # "")
        highRisk == SelectSeq(geoEvents, LAMBDA e : e.geo_location \in HighRiskCountries)
    IN  IF Len(geoEvents) = 0 THEN 0
        ELSE (Len(highRisk) * 100 * 1000) \div Len(geoEvents)

countUniqueGeolocations(events) ==
    Cardinality({events[i].geo_location : i \in 1..Len(events)} \ {""})

countUniquePorts(events) ==
    Cardinality({events[i].port : i \in 1..Len(events)} \ {0})

Payloads(events) ==
    LET with == SelectSeq(events, LAMBDA e : e.payload_size # 0)
    IN  [i \in 1..Len(with) |-> with[i].payload_size]

calculateAvgPayloadSize(events) ==
    IF Len(Payloads(events)) = 0 THEN 0
    ELSE SumSeq(Payloads(events)) \div Len(Payloads(events))

calculatePayloadVariance(events) ==
    LET payloads == Payloads(events)
        mean == calculateAvgPayloadSize(events)
    IN  IF Len(payloads) < 2 THEN 0
        ELSE SumSeq([i \in 1..Len(payloads) |-> (payloads[i] - mean) * (payloads[i] - mean)])
                \div Len(payloads)

\* (value - 50) / 20
calculateZScore(value) == ((value - 50) * 1000) \div 20

BlacklistedValues == {"192.168.1.100", "malicious-c2.com", "10.0.0.50"}

\* if (metadata.reputation): a reputation that is there and is not 0
ReputationTruthy(metadata) == metadata.has /\ metadata.reputation # 0

calculateBlacklistScore(indicator) ==
    IF indicator.value \in BlacklistedValues THEN 90
    ELSE IF indicator.metadata.text = "invalid" THEN 0       \* JSON.parse throws
    ELSE IF indicator.metadata.text = "null" THEN 0          \* JSON.parse('{}')
    ELSE IF ReputationTruthy(indicator.metadata)
         THEN 100 - indicator.metadata.reputation
         ELSE 0

\* the counts of the characters of the indicator values
CharCounts(value) ==
    CASE value = "a.io"      -> << 1, 1, 1, 1 >>
      [] value = "8.8.8.8"   -> << 4, 3 >>
      [] value = "10.0.0.50" -> << 1, 4, 3, 1 >>

calculateDNSEntropy(indicator, events) ==
    IF indicator.type # "domain" THEN 0
    ELSE IF Len(SelectSeq(events, LAMBDA e : e.event_type = "dns_query")) = 0 THEN 0
    ELSE calculateEntropy(CharCounts(indicator.value))

\* extractFeatures returns null from its catch
NullFeatures == [null |-> TRUE]

extractFeatures(input) ==
    IF input.storage # "ok" THEN NullFeatures
    ELSE [ null |-> FALSE,
           event_frequency |-> calculateEventFrequency(input.events),
           time_between_events |-> calculateTimeBetweenEvents(input.events),
           event_rate_per_minute |-> calculateEventRate(input.events, 60),
           event_rate_per_hour |-> calculateEventRate(input.events, 3600),
           unique_event_types |-> countUniqueEventTypes(input.events),
           event_type_diversity |-> calculateEventTypeDiversity(input.events),
           port_scan_entropy |-> calculatePortEntropy(input.events),
           geo_risk_score |-> calculateGeoRiskScore(input.events),
           unique_geolocations |-> countUniqueGeolocations(input.events),
           unique_ports |-> countUniquePorts(input.events),
           avg_payload_size |-> calculateAvgPayloadSize(input.events),
           payload_variance |-> calculatePayloadVariance(input.events),
           event_count_zscore |-> calculateZScore(Len(input.events)),
           confidence_score |-> input.indicator.confidence,
           blacklist_score |-> calculateBlacklistScore(input.indicator),
           dns_entropy |-> calculateDNSEntropy(input.indicator, input.events) ]

\* 1 / (1 + time_between_events); Infinity when the divisor is 0
Infinity == 1000 * 1000 * 1000

Inverse(t) ==
    IF 1000 + t = 0 THEN Infinity ELSE (1000 * 1000) \div (1000 + t)

\* createFeatureVector: null, or the ten components in the order of the
\* object's keys
NullVector == <<>>

createFeatureVector(input) ==
    LET features == extractFeatures(input) IN
    IF features.null THEN NullVector
    ELSE << Min(features.event_frequency, 1000),
            Min(features.event_rate_per_minute \div 100, 1000),
            Min(features.unique_event_types * 100, 1000),
            Min(features.event_type_diversity \div 5, 1000),
            Min(features.port_scan_entropy \div 10, 1000),
            features.geo_risk_score \div 100,
            features.blacklist_score * 10,
            Min(features.dns_entropy \div 5, 1000),
            Min(features.payload_variance \div 1000, 1000),
            Inverse(features.time_between_events) >>

----------------------------------------------------------------------------
(* ML scoring: MLEngine, IsolationForest, RandomForestClassifier *)

\* Scores of the two estimators are in hundredths (0.25 is 25), the
\* classifier's probability in hundred-thousandths (0.6 is 60000), rounded
\* down.  The sums and the mean are the exact ones: the rounding of binary
\* floating point (0.2 + 0.4 is 0.6000000000000001 in the source) is not
\* part of the model.

Weight(test, w) == IF test THEN w ELSE 0

UnclampedPredict(v) ==
    Weight(v[1] > 700, 30) + Weight(v[2] > 600, 25) + Weight(v[3] > 500, 20)
        + Weight(v[4] > 600 \/ v[5] > 600, 25) + Weight(v[6] > 700, 30)
        + Weight(v[7] > 500, 40) + Weight(v[8] > 700, 30)
        + Weight(v[9] > 600, 20) + Weight(v[10] > 800, 25)

\* IsolationForest.predict(features)
predict(v) ==
    Min( Weight(v[1] > 700, 30) + Weight(v[2] > 600, 25) + Weight(v[3] > 500, 20)
           + Weight(v[4] > 600 \/ v[5] > 600, 25) + Weight(v[6] > 700, 30)
           + Weight(v[7] > 500, 40) + Weight(v[8] > 700, 30)
           + Weight(v[9] > 600, 20) + Weight(v[10] > 800, 25),
         100 )

\* the trees of RandomForestClassifier.predictProba: which are triggered,
\* and what each adds to maliciousScore
Trees(v) ==
    << [on |-> v[7] > 400, add |-> 80],
       [on |-> v[1] > 500 /\ v[2] > 500, add |-> 70],
       [on |-> v[6] > 600 /\ v[3] >= 300, add |-> 75],
       [on |-> v[5] > 500 \/ v[8] > 600, add |-> 65],
       [on |-> v[4] > 400 /\ v[2] > 400, add |-> 70],
       [on |-> v[10] > 700, add |-> 60],
       [on |-> v[9] > 500, add |-> 55],
       [on |-> v[7] > 300 /\ v[6] > 500, add |-> 85],
       [on |-> v[1] > 600 /\ (v[4] > 500 \/ v[5] > 500), add |-> 75] >>

MeanOverAllTrees(v) ==
    LET triggered == SelectSeq(Trees(v), LAMBDA t : t.on)
        maliciousScore == SumSeq([i \in 1..Len(triggered) |-> triggered[i].add])
    IN  Min((maliciousScore * 1000) \div Len(Trees(v)), 100 * 1000)

predictProba(v) ==
    LET triggered == SelectSeq(Trees(v), LAMBDA t : t.on)
        maliciousScore == SumSeq([i \in 1..Len(triggered) |-> triggered[i].add])
        weight == Len(triggered)
    IN  IF weight = 0 THEN 0
        ELSE Min((maliciousScore * 1000) \div weight, 100 * 1000)

\* detectAnomaly once createFeatureVector has returned v: confident says
\* whether the result has a confidence field
AnomalyOf(v) ==
    IF v = NullVector
    THEN [score |-> 0, isAnomaly |-> FALSE, confident |-> FALSE]
    ELSE [score |-> predict(v), isAnomaly |-> predict(v) > 60, confident |-> TRUE]

detectAnomaly(input) == AnomalyOf(createFeatureVector(input))

\* classifyThreat once createFeatureVector has returned v
ClassificationOf(v) ==
    IF v = NullVector
    THEN [malicious_probability |-> 0, classification |-> "benign", confident |-> FALSE]
    ELSE [ malicious_probability |-> predictProba(v),
           classification |->
               IF predictProba(v) > 50 * 1000 THEN "malicious" ELSE "benign",
           confident |-> TRUE ]

classifyThreat(input) == ClassificationOf(createFeatureVector(input))

TruncatedScore(probability, anomaly) ==
    (6 * probability + 4 * anomaly * 1000) \div 10000

\* Math.round((probability * 0.6 + anomaly * 0.4) * 100)
CombinedScore(probability, anomaly) ==
    (6 * probability + 4 * anomaly * 1000 + 5000) \div 10000

\* calculateMLScore once its two calls of createFeatureVector, the one in
\* detectAnomaly and the one in classifyThreat, have returned v and w
MLScoreOf(v, w) ==
    [ score |-> CombinedScore(ClassificationOf(w).malicious_probability,
                              AnomalyOf(v).score),
      anomaly |-> AnomalyOf(v),
      classification |-> ClassificationOf(w) ]

\* calculateMLScore reads the storage twice: input is what the first read
\* meets, again the second
calculateMLScore(input, again) ==
    MLScoreOf(createFeatureVector(input), createFeatureVector(again))

\* the events as the rule conditions read them
AsRuleEvents(events) ==
    [i \in 1..Len(events) |->
        Ev(events[i].event_type, events[i].port, events[i].frequency, 1)]

\* evaluateRules(indicatorId): the features from extractFeatures, the events
\* from the rule engine's own read of the events table
evaluateRules(rs, input) ==
    EvaluateRules(rs,
        Input(~extractFeatures(input).null, input.storage # "events_fail",
              extractFeatures(input), AsRuleEvents(input.events)))

\* the call under study: its input is drawn at the start, and the call is
\* made once on it
InitScoringInputs ==
    /\ InitRules /\ InitGraph /\ InitPipeline /\ InitQueue
    /\ scoreRet \in {[op |-> "input", input |-> input] : input \in ScoreInputs}

Pending == scoreRet.op = "input"

CallExtractFeatures ==
    /\ Pending
    /\ scoreRet' = ScoreRet("extractFeatures", scoreRet.input,
                            extractFeatures(scoreRet.input))
    /\ UNCHANGED notScoreVars

CallCreateFeatureVector ==
    /\ Pending
    /\ scoreRet' = ScoreRet("createFeatureVector", scoreRet.input,
                            createFeatureVector(scoreRet.input))
    /\ UNCHANGED notScoreVars

CallDetectAnomaly ==
    /\ Pending
    /\ scoreRet' = ScoreRet("detectAnomaly", scoreRet.input,
                            detectAnomaly(scoreRet.input))
    /\ UNCHANGED notScoreVars

CallClassifyThreat ==
    /\ Pending
    /\ scoreRet' = ScoreRet("classifyThreat", scoreRet.input,
                            classifyThreat(scoreRet.input))
    /\ UNCHANGED notScoreVars

\* again is what the second read of the storage meets
CallCalculateMLScore ==
    /\ Pending
    /\ \E again \in StorageArgs :
          scoreRet' = [ op |-> "calculateMLScore", input |-> scoreRet.input,
                        again |-> again, status |-> "resolved",
                        ret |-> calculateMLScore(scoreRet.input,
                                    [scoreRet.input EXCEPT !.storage = again]) ]
    /\ UNCHANGED notScoreVars

CallEvaluateRules ==
    /\ Pending
    /\ scoreRet' = ScoreRet("evaluateRules", scoreRet.input,
                            evaluateRules(rules, scoreRet.input))
    /\ UNCHANGED notScoreVars

NextScoring ==
    \/ CallExtractFeatures \/ CallCreateFeatureVector \/ CallDetectAnomaly
    \/ CallClassifyThreat \/ CallCalculateMLScore \/ CallEvaluateRules

SpecScoring == InitScoringInputs /\ [][NextScoring]_vars

----------------------------------------------------------------------------
(* Feature extraction and scoring: properties *)

Called(op) == scoreRet.op = op

Failures == {"events_fail", "indicator_fail"}

StorageFailed ==
    \/ ~Pending /\ scoreRet.op # "none" /\ scoreRet.input.storage \in Failures
    \/ Called("calculateMLScore") /\ scoreRet.again \in Failures

\* C18: the blacklist score of an extracted feature record is 90 for a
\* denylisted value whatever the metadata, else 100 - reputation when the
\* metadata carries a reputation (0 included), else 0.
C18_BlacklistScore ==
    (Called("extractFeatures") /\ ~scoreRet.ret.null) =>
        LET indicator == scoreRet.input.indicator IN
        scoreRet.ret.blacklist_score =
            IF indicator.value \in BlacklistedValues THEN 90
            ELSE IF indicator.metadata.text = "object" /\ indicator.metadata.has
                 THEN 100 - indicator.metadata.reputation
                 ELSE 0

\* C19: when a storage read of feature extraction failed, evaluateRules and
\* the ML scorer do not resolve with score 0.
C19_StorageFailurePropagates ==
    (StorageFailed /\ scoreRet.op \in {"evaluateRules", "detectAnomaly", "calculateMLScore"})
        => ~(scoreRet.status = "resolved" /\ scoreRet.ret.score = 0)

\* C20: for a stored indicator without events, not denylisted and without a
\* reputation, extractFeatures returns a record, evaluateRules returns score
\* 0 with no matched rule, and calculateMLScore returns score 0.
C20_NoEventsScoreZero ==
    ( /\ scoreRet.op \in {"extractFeatures", "evaluateRules", "calculateMLScore"}
      /\ scoreRet.input.storage = "ok"
      /\ Called("calculateMLScore") => scoreRet.again = "ok"
      /\ scoreRet.input.events = <<>>
      /\ scoreRet.input.indicator.value \notin BlacklistedValues
      /\ ~scoreRet.input.indicator.metadata.has ) =>
        /\ Called("extractFeatures") => ~scoreRet.ret.null
        /\ Called("evaluateRules") =>
              scoreRet.ret.score = 0 /\ scoreRet.ret.matchedRules = <<>>
        /\ Called("calculateMLScore") => scoreRet.ret.score = 0

\* C21: every component of a vector that createFeatureVector returns is in
\* [0,1], and the ten components are, in this order, frequency, rate, unique
\* types, type diversity, port entropy, geo risk, blacklist, DNS entropy,
\* payload variance and inverse inter-arrival.
C21_VectorInUnitRange ==
    (Called("createFeatureVector") /\ scoreRet.ret # NullVector) =>
        LET v == scoreRet.ret
            features == extractFeatures(scoreRet.input)
        IN  /\ Len(v) = 10
            /\ \A i \in 1..Len(v) : 0 <= v[i] /\ v[i] <= 1000
            /\ v[1] = Min(features.event_frequency, 1000)
            /\ v[2] = Min(features.event_rate_per_minute \div 100, 1000)
            /\ v[3] = Min(features.unique_event_types * 100, 1000)
            /\ v[4] = Min(features.event_type_diversity \div 5, 1000)
            /\ v[5] = Min(features.port_scan_entropy \div 10, 1000)
            /\ v[6] * 100 <= features.geo_risk_score
            /\ v[7] = features.blacklist_score * 10
            /\ v[8] = Min(features.dns_entropy \div 5, 1000)
            /\ v[9] = Min(features.payload_variance \div 1000, 1000)

----------------------------------------------------------------------------
(* The two estimators on a feature vector *)

\* the vectors that createFeatureVector hands to the estimators: values on
\* both sides of every threshold, the thresholds themselves, null, and the
\* values outside [0,1] that the blacklist and the inverse inter-arrival
\* components can take
VectorArgs ==
    { << f, r, u, d, p, g, b, n, y, t >> :
         f \in {0, 700, 1000}, r \in {0, 1000}, u \in {0, 300, 1000},
         d \in {0, 1000}, p \in {0, 1000}, g \in {0, 1000},
         b \in {-500, 0, 500, 1000}, n \in {0, 1000}, y \in {0, 1000},
         t \in {0, 1000, Infinity} }
      \cup {NullVector}

InitEstimators ==
    /\ InitRules /\ InitGraph /\ InitPipeline /\ InitQueue
    /\ scoreRet \in {[op |-> "vector", input |-> v] : v \in VectorArgs}

HasVector == scoreRet.op = "vector"

DetectAnomalyOn ==
    /\ HasVector
    /\ scoreRet' = ScoreRet("detectAnomaly", scoreRet.input, AnomalyOf(scoreRet.input))
    /\ UNCHANGED notScoreVars

ClassifyThreatOn ==
    /\ HasVector
    /\ scoreRet' = ScoreRet("classifyThreat", scoreRet.input,
                            ClassificationOf(scoreRet.input))
    /\ UNCHANGED notScoreVars

CalculateMLScoreOn ==
    /\ HasVector
    /\ scoreRet' = ScoreRet("calculateMLScore", scoreRet.input,
                            MLScoreOf(scoreRet.input, scoreRet.input))
    /\ UNCHANGED notScoreVars

NextEstimators == DetectAnomalyOn \/ ClassifyThreatOn \/ CalculateMLScoreOn

SpecEstimators == InitEstimators /\ [][NextEstimators]_vars

\* the thresholds of the anomaly estimator: the components tested, the
\* threshold and the weight, in hundredths
AnomalyThresholds ==
    << <<{1}, 700, 30>>, <<{2}, 600, 25>>, <<{3}, 500, 20>>, <<{4, 5}, 600, 25>>,
       <<{6}, 700, 30>>, <<{7}, 500, 40>>, <<{8}, 700, 30>>, <<{9}, 600, 20>>,
       <<{10}, 800, 25>> >>

Exceeded(v) ==
    { k \in 1..Len(AnomalyThresholds) :
        \E i \in AnomalyThresholds[k][1] : v[i] > AnomalyThresholds[k][2] }

RECURSIVE SumWeights(_)
SumWeights(ks) ==
    IF ks = {} THEN 0
    ELSE LET k == CHOOSE x \in ks : TRUE
         IN  AnomalyThresholds[k][3] + SumWeights(ks \ {k})

TriggeredTrees(v) == {i \in 1..Len(Trees(v)) : Trees(v)[i].on}

RECURSIVE SumContributions(_, _)
SumContributions(v, is) ==
    IF is = {} THEN 0
    ELSE LET i == CHOOSE x \in is : TRUE
         IN  Trees(v)[i].add + SumContributions(v, is \ {i})

\* C23: the malicious probability is the mean of the contributions of the
\* triggered trees (to the precision of the model, rounded down), and 0 when
\* no tree is triggered; the label is malicious exactly when the
\* probability is greater than 0.5, and benign otherwise.
C23_ProbabilityIsMean ==
    (Called("classifyThreat") /\ scoreRet.input # NullVector) =>
        LET v == scoreRet.input
            n == Cardinality(TriggeredTrees(v))
            total == SumContributions(v, TriggeredTrees(v)) * 1000
            probability == scoreRet.ret.malicious_probability
        IN  /\ n = 0 => probability = 0
            /\ n > 0 => /\ probability * n <= total
                        /\ total < (probability + 1) * n
            /\ scoreRet.ret.classification \in {"malicious", "benign"}
            /\ scoreRet.ret.classification = "malicious" <=> probability > 50 * 1000

\* two trees with different contributions are triggered, and seven are not
C23_Witness ==
    /\ Called("classifyThreat") /\ scoreRet.input # NullVector
    /\ Cardinality(TriggeredTrees(scoreRet.input)) = 2
    /\ scoreRet.ret.malicious_probability = 72500
    /\ scoreRet.ret.classification = "malicious"

\* C24: the combined score is round(100 * (0.6 * probability + 0.4 *
\* anomaly score)), half rounding up, an integer in [0,100]; it is 0 when
\* the feature vector is null.
C24_CombinedScore ==
    Called("calculateMLScore") =>
        LET weighted == 6 * scoreRet.ret.classification.malicious_probability
                          + 4 * 1000 * scoreRet.ret.anomaly.score
            score == scoreRet.ret.score
        IN  /\ 2 * 10000 * score - 10000 <= 2 * weighted
            /\ 2 * weighted < 2 * 10000 * score + 10000
            /\ score \in 0..100
            /\ scoreRet.input = NullVector => score = 0

\* a score whose fraction of a half or more was rounded up
C24_Witness ==
    /\ Called("calculateMLScore") /\ scoreRet.input # NullVector
    /\ (6 * scoreRet.ret.classification.malicious_probability
          + 4 * 1000 * scoreRet.ret.anomaly.score) % 10000 >= 5000
    /\ scoreRet.ret.score > 50 /\ scoreRet.ret.score < 100

----------------------------------------------------------------------------
(* Ingestion: the event queue of IngestionService *)

batchSize == 100

\* const batch = [...this.eventQueue]
TailOfQueue(queue) == Tail(queue)

Batch(queue) == queue

\* this.eventQueue = []
AfterFlush(queue) == <<>>

\* this.eventQueue.length >= this.batchSize
ExceededBatchSize(queue) == Len(queue) > batchSize

ReachedBatchSize(queue) == Len(queue) >= batchSize

\* flushQueue() up to its await, called by caller on a queue: nothing for an
\* empty queue; otherwise the batch is copied, the queue is emptied and
\* ingestEvents(batch) is called, all before anything else can run
flushQueue(queue, caller) ==
    IF queue = <<>>
    THEN /\ eventQueue' = queue
         /\ UNCHANGED <<handed, flushing, flushedBy>>
    ELSE /\ handed' = handed \o Batch(queue)
         /\ eventQueue' = AfterFlush(queue)
         /\ flushing' = Min(flushing + 1, MaxFlushing)
         /\ flushedBy' = caller

\* queueEvent(event)
QueueEvent ==
    /\ queued < MaxQueued
    /\ queued' = queued + 1
    /\ IF ReachedBatchSize(Append(eventQueue, queued + 1))
       THEN flushQueue(Append(eventQueue, queued + 1), "queueEvent")
       ELSE /\ eventQueue' = Append(eventQueue, queued + 1)
            /\ UNCHANGED <<handed, flushing, flushedBy>>
    /\ UNCHANGED notQueueVars

\* the callback of setInterval in startBatchProcessing
TimerFlush ==
    /\ flushQueue(eventQueue, "timer")
    /\ UNCHANGED <<queued, notQueueVars>>

\* the ingestEvents(batch) that a flushQueue awaits resolves
FlushResolves ==
    /\ flushing > 0
    /\ flushing' = flushing - 1
    /\ UNCHANGED <<eventQueue, queued, handed, flushedBy, notQueueVars>>

NextQueue == QueueEvent \/ TimerFlush \/ FlushResolves

SpecQueue == Init /\ [][NextQueue]_vars

\* the timer keeps firing
SpecQueueFair == SpecQueue /\ WF_vars(TimerFlush)

Count(s, x) == Cardinality({i \in 1..Len(s) : s[i] = x})

\* every event queued so far is in the queue or was handed to ingestEvents,
\* and is there once
HandedOnce ==
    /\ \A n \in 1..queued : Count(handed, n) + Count(eventQueue, n) = 1
    /\ Len(handed) + Len(eventQueue) = queued

\* C27: every event queued is handed to ingestEvents exactly once, none is
\* dropped and none handed twice, also when it was queued while a flush was
\* in progress; and with the timer firing, the events in the queue are
\* eventually handed over.
C27_QueuedEventsHandedOnce ==
    /\ [](HandedOnce /\ \A i \in 1..Len(handed) : handed[i] <= queued)
    /\ (eventQueue # <<>>) ~> (eventQueue = <<>>)

\* an event queued while two flushes were in progress has been handed over
\* by a third flush
C27_Witness ==
    /\ flushing = MaxFlushing
    /\ Len(handed) >= 3 /\ eventQueue # <<>>
    /\ HandedOnce

\* the events passed to ingestEvents in this step
NewlyHanded == Len(handed') - Len(handed)

\* C28: when queueEvent returns the queue holds fewer than batchSize events,
\* and every batch passed to ingestEvents has at least 1 and at most
\* batchSize events.
C28_QueueBelowBatchSize ==
    [][ /\ queued' # queued => Len(eventQueue') < batchSize
        /\ handed' # handed => (1 <= NewlyHanded /\ NewlyHanded <= batchSize)
      ]_vars

\* queueEvent reached batchSize and flushed a batch of batchSize events
C28_Witness ==
    /\ flushedBy = "queueEvent"
    /\ eventQueue = <<>>
    /\ Len(handed) = batchSize /\ queued = batchSize

----------------------------------------------------------------------------
(* Ingestion: DataNormalizer and the indicators that ingestEvent stores *)

\* a raw event: the fields the normalizer reads to find the indicator; ""
\* is a field that is absent (an absent field and "" are both falsy)
Raw(indicator_type, indicator_value, value, ip, domain, hash, user, file, confidence) ==
    [ indicator_type |-> indicator_type, indicator_value |-> indicator_value,
      value |-> value, ip |-> ip, domain |-> domain, hash |-> hash,
      user |-> user, file |-> file, confidence |-> confidence ]

RawEventArgs ==
    { Raw("", "", "", "10.0.0.1", "", "", "", "", 0),
      Raw("", "", "10.0.0.1", "", "", "", "", "", 9),
      Raw("", "", "", "", "a.io", "", "", "", 0),
      Raw("", "", "d41d8cd98f00b204e9800998ecf8427e", "", "", "", "", "", 0),
      Raw("", "", "", "", "", "", "root", "", 0),
      Raw("", "", "", "", "", "", "", "x.exe", 0),
      Raw("", "", "", "", "", "", "", "", 0),
      Raw("IP", "10.0.0.1", "", "", "", "", "", "", 0),
      Raw("url", "", "a.io", "", "", "", "", "", 0) }

\* the three regular expressions, on the values above
isIPAddress(value) == value \in {"10.0.0.1"}
isDomain(value) == value \in {"a.io"}
isHash(value) == value \in {"d41d8cd98f00b204e9800998ecf8427e"}

detectIndicatorType(event) ==
    IF event.indicator_type # "" THEN event.indicator_type
    ELSE IF event.ip # "" \/ isIPAddress(event.value) THEN "IP"
    ELSE IF event.domain # "" \/ isDomain(event.value) THEN "domain"
    ELSE IF event.hash # "" \/ isHash(event.value) THEN "hash"
    ELSE IF event.user # "" THEN "user"
    ELSE IF event.file # "" THEN "file"
    ELSE "unknown"

extractIndicatorValue(event) ==
    IF event.indicator_value # "" THEN event.indicator_value
    ELSE IF event.value # "" THEN event.value
    ELSE IF event.ip # "" THEN event.ip
    ELSE IF event.domain # "" THEN event.domain
    ELSE IF event.hash # "" THEN event.hash
    ELSE IF event.user # "" THEN event.user
    ELSE IF event.file # "" THEN event.file
    ELSE "unknown"

\* normalizeEvent: the fields of the normalized event that storeIndicator
\* reads
normalizeEvent(rawEvent) ==
    [ type |-> detectIndicatorType(rawEvent),
      value |-> extractIndicatorValue(rawEvent),
      confidence |-> rawEvent.confidence ]

\* ingestEvents([rawEvent]), called when no run is in flight
IngestRawEvent ==
    \E rawEvent \in RawEventArgs :
        /\ \A s \in RunSlots : runs[s] = IdleRun
        /\ Start("ingestEvents", << normalizeEvent(rawEvent) >>)

NextNormalize == IngestRawEvent \/ IndicatorSelect \/ IndicatorWrite \/ StoreEvent

SpecNormalize == Init /\ [][NextNormalize]_vars

IndicatorTypes == {"IP", "domain", "hash", "user", "file", "unknown"}

\* C26: every stored indicator has a type among IP, domain, hash, user,
\* file and unknown.
C26_IndicatorTypes ==
    \A i \in 1..Len(indicators) : indicators[i].type \in IndicatorTypes

\* C29: the indicators table never holds two rows with the same type and
\* value, also when the runs that store them overlap.
C29_NoDuplicateIndicators ==
    \A i, j \in 1..Len(indicators) :
        (indicators[i].type = indicators[j].type
            /\ indicators[i].value = indicators[j].value) => i = j

====
